---------------------------- MODULE Spec2Model ----------------------------
(***************************************************************************)
(* Model of the agent-based maternal and child health simulation of        *)
(* scripts/abm_simulation.py: MaternalAgent, ChildAgent, CHWAgent,         *)
(* HealthFacility, Commune and the ABMSimulation orchestrator.             *)
(*                                                                         *)
(* Numbers.  Probabilities, thresholds and app_engagement are kept in      *)
(* units of 1/10000 (Scale), literacy_level and poverty_level in units of  *)
(* 1/100 and distance_to_facility in units of 0.1 km, so that every        *)
(* formula of the source is exact integer arithmetic.  A rate computed by  *)
(* calculate_metrics is the fraction [num, den] the source divides.         *)
(*                                                                         *)
(* Randomness.  A draw of the pseudorandom generator is a nondeterministic *)
(* choice over the outcomes the comparison it feeds can have.              *)
(*                                                                         *)
(* The source draws distance_to_facility with random.exponential, which    *)
(* the standard random module does not define; the model takes the         *)
(* intended draw of a non-negative distance.                               *)
(***************************************************************************)
EXTENDS Integers, Sequences, FiniteSets, TLC

VARIABLES
    communes,          \* ABMSimulation.communes: the list of Commune objects
    results,           \* ABMSimulation.results: scenario name -> recorded rows
    demographic_data,  \* ABMSimulation.demographic_data: the input rows
    run,               \* position of the orchestrator call in progress
    last               \* the latest call made on an agent or commune, with its result

vars == <<communes, results, demographic_data, run, last>>

-----------------------------------------------------------------------------
(* Bounds of the model *)

MaxWeeksPregnant == 41   \* direct progress_pregnancy calls stop here
MaxWeek == 2             \* weeks 0..MaxWeek-1 are stepped by the commune driver
MaxWomen == 2            \* most women_15_49 of a commune
MaxChildren == 1         \* most children_under_5 of a commune
MaxDuration == 8         \* longest duration_weeks given to run_scenario
MaxDurationAll == 1      \* longest duration_weeks given to run_all_scenarios
ChwWomen == 21           \* women of the commune with one CHW
ChwWeeks == 3            \* weeks stepped on that commune
MaxScenarios == 2         \* scenarios of run_all_scenarios that are followed
MaxSeedWeeks == 5         \* longest duration_weeks of the two seeded executions
AttrWeeks == 3            \* weeks of pregnancy followed on the women of the attribute grid
MonthWeeks == 6           \* weeks stepped over the monthly counters
MaxServed == 2            \* patients a facility is asked to serve between two steps
MaxDelays == 2            \* delays after which receive_care is no longer called directly
MaxChildSteps == 2        \* steps of the commune of one child
MaxCycleWeeks == 42       \* weeks stepped to follow a pregnancy to its end and beyond
PairWeeks == 2            \* weeks stepped on the two communes of one simulation

(* Program constants *)

anc_target == 4
term_weeks == 40
immunizations_target == 8
max_visits_per_month == 20
facility_capacity == 50
chw_coverage_area == 100
people_per_chw == 500
metrics_every == 4

Scale == 100 * 100

InterventionTypes == {"app_based", "sms_outreach", "chw_visits", "incentives"}

-----------------------------------------------------------------------------
(* Arithmetic helpers *)

Min(a, b) == IF a <= b THEN a ELSE b
Max(a, b) == IF a >= b THEN a ELSE b

RECURSIVE SumSeq(_)
SumSeq(s) == IF s = <<>> THEN 0 ELSE Head(s) + SumSeq(Tail(s))

\* the subsets of S with exactly k elements (random.sample, order dropped)
RECURSIVE KSubsets(_, _)
KSubsets(S, k) ==
    IF k = 0 THEN {{}}
    ELSE IF Cardinality(S) < k THEN {}
    ELSE IF Cardinality(S) = k THEN {S}
    ELSE LET x == CHOOSE y \in S : TRUE
         IN  {T \cup {x} : T \in KSubsets(S \ {x}, k - 1)} \cup KSubsets(S \ {x}, k)

\* the outcomes of `random.random() < p`, random() being in [0, 1)
DrawBelow(p) ==
    IF p <= 0 THEN {FALSE} ELSE IF p >= Scale THEN {TRUE} ELSE {TRUE, FALSE}

\* the outcomes of `random.random() > t`
DrawAbove(t) ==
    IF t >= Scale THEN {FALSE} ELSE IF t < 0 THEN {TRUE} ELSE {TRUE, FALSE}

-----------------------------------------------------------------------------
(* AgentAttributes and the attribute draws of Commune._initialize_agents *)

Attributes(age, eth, lit, pov, mob, net, dist) ==
    [age |-> age, ethnicity |-> eth, literacy_level |-> lit, poverty_level |-> pov,
     mobile_access |-> mob, internet_access |-> net, distance_to_facility |-> dist]

\* representative draws: connected, not poor and near; offline, poor and
\* remote; mobile only and poor
MaternalProfiles ==
    { Attributes(20, "Kinh", 80, 40, TRUE, TRUE, 20),
      Attributes(40, "Hmong", 30, 80, FALSE, FALSE, 80),
      Attributes(30, "Thai", 60, 70, TRUE, FALSE, 30) }

ChildAttributes == Attributes(3, "Kinh", 0, 50, FALSE, FALSE, 30)

-----------------------------------------------------------------------------
(* MaternalAgent *)

\* the bounds of max(lo, min(hi, x)) left out
Clamp_Off(lo, hi, x) == x

Clamp(lo, hi, x) == Max(lo, Min(hi, x))

_calculate_care_seeking_threshold(at) ==
    LET base_threshold == 5000
        literacy_factor == -(20 * at.literacy_level)
        poverty_factor == 15 * at.poverty_level
        distance_factor == Min(10 * at.distance_to_facility, 300)
        ethnicity_factor == IF at.ethnicity # "Kinh" THEN 1000 ELSE 0
    IN  Clamp(1000, 9000, base_threshold + literacy_factor + poverty_factor
                          + distance_factor + ethnicity_factor)

_calculate_digital_threshold(at) ==
    IF ~at.mobile_access THEN Scale
    ELSE Clamp(1000, 9000, 6000 - 30 * at.literacy_level + 100 * Max(0, at.age - 25))

MaternalAgent(id, at) ==
    [agent_id |-> id, attributes |-> at,
     anc_visits |-> 0, anc_target |-> anc_target,
     weeks_pregnant |-> 0, is_pregnant |-> FALSE,
     has_skilled_birth_attendant |-> FALSE,
     app_engagement |-> 0, received_sms |-> FALSE, chw_contacted |-> FALSE,
     care_seeking_threshold |-> _calculate_care_seeking_threshold(at),
     digital_engagement_threshold |-> _calculate_digital_threshold(at)]

become_pregnant(a) ==
    [a EXCEPT !.is_pregnant = TRUE, !.weeks_pregnant = 1, !.anc_visits = 0]

\* progress_pregnancy that leaves the week as it is
progress_pregnancy_Stalled(a) == a

progress_pregnancy(a) ==
    IF a.is_pregnant THEN [a EXCEPT !.weeks_pregnant = @ + 1] ELSE a

\* final_prob of seek_anc_care
anc_final_prob(a, active) ==
    LET base_prob == Min(8000, 1000 + 200 * a.weeks_pregnant)
        boost == (IF "app_based" \in active /\ a.app_engagement > 5000 THEN 2000 ELSE 0)
               + (IF "sms_outreach" \in active /\ a.received_sms THEN 1500 ELSE 0)
               + (IF "chw_visits" \in active /\ a.chw_contacted THEN 2500 ELSE 0)
               + (IF "incentives" \in active /\ a.attributes.poverty_level > 60
                  THEN 3000 ELSE 0)
    IN  Min(9500, base_prob + boost)

\* the refusal test of seek_anc_care, with the visit cap dropped
anc_refused_NoCap(a) == ~a.is_pregnant

anc_refused(a) == ~a.is_pregnant \/ a.anc_visits >= a.anc_target

\* the possible results of seek_anc_care: the agent afterwards and the value returned
seek_anc_care(a, active) ==
    IF anc_refused(a) THEN {[agent |-> a, ret |-> FALSE]}
    ELSE { IF d1 /\ d2 THEN [agent |-> [a EXCEPT !.anc_visits = @ + 1], ret |-> TRUE]
                       ELSE [agent |-> a, ret |-> FALSE]
           : d1 \in DrawBelow(anc_final_prob(a, active)),
             d2 \in DrawAbove(a.care_seeking_threshold) }

birth_final_prob(a) ==
    LET base_prob == 4000 + 1000 * a.anc_visits
        literacy_boost == 20 * a.attributes.literacy_level
        poverty_penalty == -(15 * a.attributes.poverty_level)
        distance_penalty == -Min(10 * a.attributes.distance_to_facility, 200)
    IN  Clamp(1000, 9500, base_prob + literacy_boost + poverty_penalty + distance_penalty)

\* give_birth that keeps the pregnancy when no skilled attendant is drawn
give_birth_KeepOnFailure(a) ==
    IF a.weeks_pregnant >= term_weeks
    THEN { IF d THEN [agent |-> [a EXCEPT !.has_skilled_birth_attendant = TRUE,
                                          !.is_pregnant = FALSE,
                                          !.weeks_pregnant = 0], ret |-> TRUE]
                ELSE [agent |-> [a EXCEPT !.has_skilled_birth_attendant = FALSE],
                      ret |-> FALSE]
           : d \in DrawBelow(birth_final_prob(a)) }
    ELSE {[agent |-> a, ret |-> FALSE]}

\* give_birth that also clears the ANC count of the pregnancy it ends
give_birth_ClearsAnc(a) ==
    IF a.weeks_pregnant >= term_weeks
    THEN { [agent |-> [a EXCEPT !.has_skilled_birth_attendant = d,
                                !.is_pregnant = FALSE,
                                !.weeks_pregnant = 0,
                                !.anc_visits = 0],
            ret |-> d] : d \in DrawBelow(birth_final_prob(a)) }
    ELSE {[agent |-> a, ret |-> FALSE]}

\* the possible results of give_birth
give_birth(a) ==
    IF a.weeks_pregnant >= term_weeks
    THEN { [agent |-> [a EXCEPT !.has_skilled_birth_attendant = d,
                                !.is_pregnant = FALSE,
                                !.weeks_pregnant = 0],
            ret |-> d] : d \in DrawBelow(birth_final_prob(a)) }
    ELSE {[agent |-> a, ret |-> FALSE]}

-----------------------------------------------------------------------------
(* ChildAgent *)

ChildAgent(id, mother_id, at, age_months) ==
    [agent_id |-> id, mother_id |-> mother_id, attributes |-> at,
     age_months |-> age_months,
     immunizations_received |-> 0, immunizations_target |-> immunizations_target,
     care_seeking_delays |-> 0]

\* the need of a child measured against the target alone, whatever its age
need_immunization_TargetOnly(ch) == ch.immunizations_received < ch.immunizations_target

need_immunization(ch) ==
    ch.immunizations_received < Min(ch.immunizations_target, ch.age_months \div 2)

care_final_prob(mother, active) ==
    LET base_prob == 3000
        literacy_boost == 20 * mother.attributes.literacy_level
        poverty_penalty == -(10 * mother.attributes.poverty_level)
        boost == (IF "app_based" \in active /\ mother.app_engagement > 4000 THEN 1500 ELSE 0)
               + (IF "incentives" \in active /\ mother.attributes.poverty_level > 50
                  THEN 2500 ELSE 0)
    IN  Clamp(500, 9000, base_prob + literacy_boost + poverty_penalty + boost)

\* the possible results of receive_care: the child afterwards and the value returned
receive_care(ch, mother, active) ==
    IF ~need_immunization(ch) THEN {[child |-> ch, ret |-> FALSE]}
    ELSE { IF d THEN [child |-> [ch EXCEPT !.immunizations_received = @ + 1], ret |-> TRUE]
                ELSE [child |-> [ch EXCEPT !.care_seeking_delays = @ + 1], ret |-> FALSE]
           : d \in DrawBelow(care_final_prob(mother, active)) }

-----------------------------------------------------------------------------
(* CHWAgent and HealthFacility *)

CHWAgent(id) ==
    [agent_id |-> id, coverage_area |-> chw_coverage_area,
     visits_this_month |-> 0, max_visits_per_month |-> max_visits_per_month]

\* the capacity test of conduct_visit, off by one
chw_available_OffByOne(chw) == chw.visits_this_month <= chw.max_visits_per_month

chw_available(chw) == chw.visits_this_month < chw.max_visits_per_month

\* conduct_visit that does not count the visit it makes
conduct_visit_Uncounted(chw, target) ==
    IF chw_available(chw)
    THEN [chw |-> chw, target |-> [target EXCEPT !.chw_contacted = TRUE], ret |-> TRUE]
    ELSE [chw |-> chw, target |-> target, ret |-> FALSE]

\* the result of conduct_visit: the CHW and the target afterwards, the value returned
conduct_visit(chw, target) ==
    IF chw_available(chw)
    THEN [chw |-> [chw EXCEPT !.visits_this_month = @ + 1],
          target |-> [target EXCEPT !.chw_contacted = TRUE], ret |-> TRUE]
    ELSE [chw |-> chw, target |-> target, ret |-> FALSE]

HealthFacility(id) ==
    [facility_id |-> id, capacity |-> facility_capacity,
     services |-> {"anc", "delivery", "immunization", "general"},
     patients_served_this_month |-> 0]

can_serve_patient(f) == f.patients_served_this_month < f.capacity

\* the result of serve_patient: the facility afterwards and the value returned
serve_patient(f, service_type) ==
    IF service_type \in f.services /\ can_serve_patient(f)
    THEN [facility |-> [f EXCEPT !.patients_served_this_month = @ + 1], ret |-> TRUE]
    ELSE [facility |-> f, ret |-> FALSE]

-----------------------------------------------------------------------------
(* Commune: construction *)

\* a division of the source; den = 0 stands for the ZeroDivisionError it would raise
Divide(n, d) == [num |-> n, den |-> d]
Zero == [num |-> 0, den |-> 1]

InitialMetrics ==
    [anc_coverage |-> Zero, skilled_birth_attendance |-> Zero,
     immunization_coverage |-> Zero, digital_engagement |-> Zero,
     care_seeking_delays |-> 0]

\* an input row: the commune's names and its three population counts
Row(name, province, women, children, population) ==
    [commune |-> name, province |-> province, women_15_49 |-> women,
     children_under_5 |-> children, total_population |-> population]

\* child ages drawn by random.randint(0, 59): an infant and the first age that
\* counts for coverage
AgeMonthsDraws == {5, 12}

\* the draws of the maternal loop of _initialize_agents: attributes and the
\* 15% initial pregnancy of each woman
MaternalDraws(n) ==
    { [i \in 1..n |-> IF f[i][2] THEN become_pregnant(MaternalAgent(i, f[i][1]))
                                 ELSE MaternalAgent(i, f[i][1])]
      : f \in [1..n -> MaternalProfiles \X DrawBelow(1500)] }

\* the draws of the child loop: the mother (0: the "Unknown" id given when the
\* commune has no maternal agent) and the age
ChildDraws(n, mothers) ==
    LET ids == IF mothers = <<>> THEN {0} ELSE {mothers[i].agent_id : i \in 1..Len(mothers)}
    IN  { [i \in 1..n |-> ChildAgent(i, f[i][1], ChildAttributes, f[i][2])]
          : f \in [1..n -> ids \X AgeMonthsDraws] }

NumChw(row) == Max(1, row.total_population \div people_per_chw)

\* the communes Commune(name, province, row) can build
NewCommunes(row) ==
    UNION { { [name |-> row.commune, province |-> row.province, demographic_data |-> row,
               maternal_agents |-> m, child_agents |-> k,
               chw_agents |-> [i \in 1..NumChw(row) |-> CHWAgent(i)],
               health_facilities |-> <<HealthFacility(1)>>,
               metrics |-> InitialMetrics]
              : k \in ChildDraws(row.children_under_5, m) }
            : m \in MaternalDraws(row.women_15_49) }

-----------------------------------------------------------------------------
(* Commune: apply_intervention *)

\* the sequences that take their i-th element from the i-th set
RECURSIVE Product(_)
Product(sets) ==
    IF Len(sets) = 0 THEN {<<>>}
    ELSE { <<h>> \o t : h \in Head(sets), t \in Product(Tail(sets)) }

\* app_engagement = random.uniform(0.6, 0.9): the two ends of the interval
EngagementDraws == {6000, 9000}

\* int(len(eligible_agents) * coverage), coverage in percent
NumTargeted(n, coverage) == (n * coverage) \div 100

AppEligible(c) ==
    {i \in 1..Len(c.maternal_agents) :
        c.maternal_agents[i].attributes.mobile_access
        /\ c.maternal_agents[i].attributes.internet_access}

SmsEligible(c) ==
    {i \in 1..Len(c.maternal_agents) : c.maternal_agents[i].attributes.mobile_access}

\* the CHW branch taking every agent as eligible
ChwEligible_All(c) == 1..Len(c.maternal_agents)

ChwEligible(c) ==
    {i \in 1..Len(c.maternal_agents) :
        c.maternal_agents[i].attributes.poverty_level > 60
        \/ c.maternal_agents[i].attributes.distance_to_facility > 50}

\* what the app loop can do to one targeted agent
AppEngage(a) ==
    { IF d THEN [a EXCEPT !.app_engagement = e] ELSE a
      : d \in DrawAbove(a.digital_engagement_threshold), e \in EngagementDraws }

AvailableChw(chws) == {k \in 1..Len(chws) : chw_available(chws[k])}

RemainingCapacity(chws) ==
    SumSeq([k \in 1..Len(chws) |->
              Max(0, chws[k].max_visits_per_month - chws[k].visits_this_month)])

\* The visit loop over the sampled targets.  st = [m, w]: the maternal agents
\* and the CHWs so far; targets: the sampled agents not yet met.  The sample
\* comes in a random order, so the next target is any of them; when the CHWs
\* can still serve all of them the order changes nothing and one is taken.
\* Once no CHW is available the rest of the loop does nothing.
RECURSIVE VisitLoop(_, _)
VisitLoop(st, targets) ==
    IF targets = {} \/ AvailableChw(st.w) = {} THEN {st}
    ELSE LET next == IF RemainingCapacity(st.w) >= Cardinality(targets)
                     THEN {CHOOSE i \in targets : TRUE}
                     ELSE targets
         IN  UNION { UNION { LET v == conduct_visit(st.w[k], st.m[i])
                             IN  VisitLoop([m |-> [st.m EXCEPT ![i] = v.target],
                                            w |-> [st.w EXCEPT ![k] = v.chw]],
                                           targets \ {i})
                             : k \in AvailableChw(st.w) }
                     : i \in next }

TotalVisitsPossible(c) ==
    SumSeq([k \in 1..Len(c.chw_agents) |-> c.chw_agents[k].max_visits_per_month])

\* the app branch without its two gates: every agent is targeted and engaged
ApplyApp_Ungated(c, coverage) ==
    { [c EXCEPT !.maternal_agents = m]
      : m \in Product([i \in 1..Len(c.maternal_agents) |->
                         {[c.maternal_agents[i] EXCEPT !.app_engagement = e]
                          : e \in EngagementDraws}]) }

\* the "app_based" branch of apply_intervention
ApplyApp(c, coverage) ==
    LET eligible == AppEligible(c)
        num_targeted == NumTargeted(Cardinality(eligible), coverage)
    IN  UNION { { [c EXCEPT !.maternal_agents = m]
                  : m \in Product([i \in 1..Len(c.maternal_agents) |->
                                     IF i \in targeted
                                     THEN AppEngage(c.maternal_agents[i])
                                     ELSE {c.maternal_agents[i]}]) }
                : targeted \in KSubsets(eligible,
                                        Min(num_targeted, Cardinality(eligible))) }

\* the SMS branch sampling its targets from all the agents, at least one
ApplySms_Untargeted(c, coverage) ==
    LET all == 1..Len(c.maternal_agents)
    IN  { [c EXCEPT !.maternal_agents =
             [i \in all |->
                IF i \in targeted
                THEN [c.maternal_agents[i] EXCEPT !.received_sms = TRUE]
                ELSE c.maternal_agents[i]]]
          : targeted \in KSubsets(all, Min(1, Cardinality(all))) }

\* the "sms_outreach" branch
ApplySms(c, coverage) ==
    LET eligible == SmsEligible(c)
        num_targeted == NumTargeted(Cardinality(eligible), coverage)
    IN  { [c EXCEPT !.maternal_agents =
             [i \in 1..Len(c.maternal_agents) |->
                IF i \in targeted
                THEN [c.maternal_agents[i] EXCEPT !.received_sms = TRUE]
                ELSE c.maternal_agents[i]]]
          : targeted \in KSubsets(eligible, Min(num_targeted, Cardinality(eligible))) }

\* num_targeted of the "chw_visits" branch:
\* min(int(len(eligible_agents) * coverage), total_visits_possible)
ChwNumTargeted(c, coverage) ==
    Min(NumTargeted(Cardinality(ChwEligible(c)), coverage), TotalVisitsPossible(c))

\* the "chw_visits" branch
ApplyChw(c, coverage) ==
    LET eligible == ChwEligible(c)
        num_targeted == ChwNumTargeted(c, coverage)
    IN  IF eligible = {} THEN {c}
        ELSE UNION { { [c EXCEPT !.maternal_agents = st.m, !.chw_agents = st.w]
                       : st \in VisitLoop([m |-> c.maternal_agents,
                                           w |-> c.chw_agents], targeted) }
                     : targeted \in KSubsets(eligible,
                                             Min(num_targeted, Cardinality(eligible))) }

\* apply_intervention with an "incentives" branch that reaches agents as the
\* SMS branch does
apply_intervention_IncentivesBranch(c, type, coverage) ==
    IF type = "app_based" THEN ApplyApp(c, coverage)
    ELSE IF type \in {"sms_outreach", "incentives"} THEN ApplySms(c, coverage)
    ELSE IF type = "chw_visits" THEN ApplyChw(c, coverage)
    ELSE {c}

\* the communes apply_intervention(intervention_type, coverage) can leave
apply_intervention(c, type, coverage) ==
    IF type = "app_based" THEN ApplyApp(c, coverage)
    ELSE IF type = "sms_outreach" THEN ApplySms(c, coverage)
    ELSE IF type = "chw_visits" THEN ApplyChw(c, coverage)
    ELSE {c}

-----------------------------------------------------------------------------
(* Commune: step *)

\* random.random() < 0.002
pregnancy_chance == 20

\* the turn of a maternal agent with give_birth called before seek_anc_care
StepMaternal_BirthFirst(a, active) ==
    IF a.is_pregnant
    THEN UNION { {s.agent : s \in seek_anc_care(g.agent, active)}
                 : g \in give_birth(progress_pregnancy(a)) }
    ELSE { IF d THEN become_pregnant(a) ELSE a : d \in DrawBelow(pregnancy_chance) }

\* the turn of a maternal agent with the pregnancy draw made for every agent,
\* pregnant or not
StepMaternal_DrawForAll(a, active) ==
    LET turned == IF a.is_pregnant
                  THEN UNION { {g.agent : g \in give_birth(s.agent)}
                               : s \in seek_anc_care(progress_pregnancy(a), active) }
                  ELSE {a}
    IN  UNION { { IF d THEN become_pregnant(t) ELSE t : d \in DrawBelow(pregnancy_chance) }
                : t \in turned }

\* the turn of a maternal agent whose intervention exposure ends with the week
StepMaternal_ExposureExpires(a, active) ==
    LET turned == IF a.is_pregnant
                  THEN UNION { {g.agent : g \in give_birth(s.agent)}
                               : s \in seek_anc_care(progress_pregnancy(a), active) }
                  ELSE { IF d THEN become_pregnant(a) ELSE a
                         : d \in DrawBelow(pregnancy_chance) }
    IN  { [t EXCEPT !.app_engagement = 0, !.received_sms = FALSE, !.chw_contacted = FALSE]
          : t \in turned }

\* one maternal agent's turn in step
StepMaternal(a, active) ==
    IF a.is_pregnant
    THEN UNION { {g.agent : g \in give_birth(s.agent)}
                 : s \in seek_anc_care(progress_pregnancy(a), active) }
    ELSE { IF d THEN become_pregnant(a) ELSE a : d \in DrawBelow(pregnancy_chance) }

\* next((m for m in self.maternal_agents if m.agent_id == child.mother_id), None):
\* the index of the first match, 0 for None
FindMother(mothers, mother_id) ==
    LET hits == {i \in 1..Len(mothers) : mothers[i].agent_id = mother_id}
    IN  IF hits = {} THEN 0 ELSE CHOOSE i \in hits : \A j \in hits : i <= j

\* the turn of a child that is counted a delay when its mother is not found
StepChild_DelayWhenUnresolved(ch, mothers, active) ==
    LET mi == FindMother(mothers, ch.mother_id)
    IN  IF mi = 0 THEN {[ch EXCEPT !.care_seeking_delays = @ + 1]}
        ELSE {r.child : r \in receive_care(ch, mothers[mi], active)}

\* one child's turn in the monthly loop of step
StepChild(ch, mothers, active) ==
    LET mi == FindMother(mothers, ch.mother_id)
    IN  IF mi = 0 THEN {ch}
        ELSE {r.child : r \in receive_care(ch, mothers[mi], active)}

\* the monthly reset that leaves the CHWs' counters as they are
ResetChw_Keep(chws) == chws

ResetChw(chws) == [k \in 1..Len(chws) |-> [chws[k] EXCEPT !.visits_this_month = 0]]

ResetFacilities(fs) ==
    [k \in 1..Len(fs) |-> [fs[k] EXCEPT !.patients_served_this_month = 0]]

\* step in which a birth adds the newborn to the commune's children
step_BirthAddsChild(c, week, active) ==
    LET monthly == (week % metrics_every = 0)
        born(m) == {i \in 1..Len(m) : c.maternal_agents[i].is_pregnant /\ ~m[i].is_pregnant}
    IN  UNION { { [c EXCEPT !.chw_agents = IF monthly THEN ResetChw(@) ELSE @,
                            !.health_facilities = IF monthly THEN ResetFacilities(@) ELSE @,
                            !.maternal_agents = m,
                            !.child_agents =
                                IF born(m) = {} THEN k
                                ELSE Append(k, ChildAgent(Len(k) + 1,
                                                          m[CHOOSE i \in born(m) : TRUE].agent_id,
                                                          ChildAttributes, 0))]
                  : k \in IF monthly
                          THEN Product([j \in 1..Len(c.child_agents) |->
                                          StepChild(c.child_agents[j], m, active)])
                          ELSE {c.child_agents} }
                : m \in Product([i \in 1..Len(c.maternal_agents) |->
                                   StepMaternal(c.maternal_agents[i], active)]) }

\* step with the child loop run every week
step_ChildrenWeekly(c, week, active) ==
    LET monthly == (week % metrics_every = 0)
    IN  UNION { { [c EXCEPT !.chw_agents = IF monthly THEN ResetChw(@) ELSE @,
                            !.health_facilities = IF monthly THEN ResetFacilities(@) ELSE @,
                            !.maternal_agents = m, !.child_agents = k]
                  : k \in Product([j \in 1..Len(c.child_agents) |->
                                     StepChild(c.child_agents[j], m, active)]) }
                : m \in Product([i \in 1..Len(c.maternal_agents) |->
                                   StepMaternal(c.maternal_agents[i], active)]) }

\* the communes step(week, intervention_active) can leave
step(c, week, active) ==
    LET monthly == (week % metrics_every = 0)
        chws == IF monthly THEN ResetChw(c.chw_agents) ELSE c.chw_agents
        facs == IF monthly THEN ResetFacilities(c.health_facilities)
                ELSE c.health_facilities
    IN  UNION { { [c EXCEPT !.chw_agents = chws, !.health_facilities = facs,
                            !.maternal_agents = m, !.child_agents = k]
                  : k \in IF monthly
                          THEN Product([j \in 1..Len(c.child_agents) |->
                                          StepChild(c.child_agents[j], m, active)])
                          ELSE {c.child_agents} }
                : m \in Product([i \in 1..Len(c.maternal_agents) |->
                                   StepMaternal(c.maternal_agents[i], active)]) }

-----------------------------------------------------------------------------
(* Commune: calculate_metrics *)

\* a rate computed without the test for an empty list
GuardedRate_NoGuard(n, d) == Divide(n, d)

\* the rate of one metric: 0.0 on an empty denominator, the division otherwise
GuardedRate(n, d) == IF d = 0 THEN Zero ELSE Divide(n, d)

\* the births counted over every agent instead of the denominator's list
SkilledBirths_AllAgents(m, group) ==
    Cardinality({i \in 1..Len(m) : m[i].has_skilled_birth_attendant})

\* sum(1 for a in mothers_who_gave_birth if a.has_skilled_birth_attendant)
SkilledBirths(m, group) ==
    Cardinality({i \in group : m[i].has_skilled_birth_attendant})

PregnantOrRecentlyPregnant(m) ==
    {i \in 1..Len(m) : m[i].is_pregnant \/ m[i].anc_visits > 0}

MothersWhoGaveBirth(m) == {i \in 1..Len(m) : m[i].anc_visits > 0}

ChildrenNeedingImmunization(ch) == {j \in 1..Len(ch) : ch[j].age_months >= 12}

DigitalAgents(m) == {i \in 1..Len(m) : m[i].attributes.mobile_access}

\* the metrics calculate_metrics computes from the commune's agents
Metrics(c) ==
    LET m == c.maternal_agents
        ch == c.child_agents
        pregnant_or_recently_pregnant == PregnantOrRecentlyPregnant(m)
        mothers_who_gave_birth == MothersWhoGaveBirth(m)
        children_needing_immunization == ChildrenNeedingImmunization(ch)
        digital_agents == DigitalAgents(m)
    IN  [anc_coverage |->
            GuardedRate(Cardinality({i \in pregnant_or_recently_pregnant :
                                        m[i].anc_visits >= 4}),
                        Cardinality(pregnant_or_recently_pregnant)),
         skilled_birth_attendance |->
            GuardedRate(SkilledBirths(m, mothers_who_gave_birth),
                        Cardinality(mothers_who_gave_birth)),
         immunization_coverage |->
            GuardedRate(SumSeq([j \in 1..Len(ch) |->
                                  IF j \in children_needing_immunization
                                  THEN Min(ch[j].immunizations_target,
                                           ch[j].immunizations_received)
                                  ELSE 0]),
                        SumSeq([j \in 1..Len(ch) |->
                                  IF j \in children_needing_immunization
                                  THEN ch[j].immunizations_target ELSE 0])),
         digital_engagement |->
            GuardedRate(SumSeq([i \in 1..Len(m) |->
                                  IF i \in digital_agents THEN m[i].app_engagement ELSE 0]),
                        Scale * Cardinality(digital_agents)),
         care_seeking_delays |->
            SumSeq([j \in 1..Len(ch) |-> ch[j].care_seeking_delays])]

calculate_metrics(c) == [c EXCEPT !.metrics = Metrics(c)]

-----------------------------------------------------------------------------
(* Calls and their record *)

\* op: the operation called; who: the agent or CHW it was called on; ret: the
\* value returned; pre: the number its guard read before the call (anc_visits
\* for seek_anc_care, weeks_pregnant for give_birth, visits_this_month for
\* conduct_visit, week for step, coverage for apply_intervention);
\* arg: the intervention type given to apply_intervention
Call(op, who, ret, pre) ==
    [op |-> op, who |-> who, ret |-> ret, pre |-> pre, arg |-> ""]

NoCall == Call("none", 0, FALSE, 0)

Idle == [op |-> "idle"]

NoResults == [s \in {} |-> <<>>]

\* the intervention_active dicts of the six scenarios of run_all_scenarios
ScenarioInterventions ==
    [baseline |-> {}, app_based |-> {"app_based"}, sms_outreach |-> {"sms_outreach"},
     chw_visits |-> {"chw_visits"}, incentives |-> {"incentives"},
     combined |-> InterventionTypes]

ScenarioNames == <<"baseline", "app_based", "sms_outreach", "chw_visits",
                   "incentives", "combined">>

ActiveInputs == {ScenarioInterventions[n] : n \in DOMAIN ScenarioInterventions}

-----------------------------------------------------------------------------
(* SpecAgent: the methods of one MaternalAgent and one CHWAgent, and         *)
(* Commune.step, called in any order on a commune of one woman               *)

AgentRow == Row("A", "Dien Bien", 1, 0, 100)

\* the inputs of the calls: no intervention or all four; a week that resets
\* the monthly counters and one that does not
AgentActiveInputs == {{}, InterventionTypes}
AgentWeekInputs == {0, 3}

\* the woman's attribute draw: one not poor, one poor
AgentProfiles == {at \in MaternalProfiles : at.mobile_access = at.internet_access}

InitAgent ==
    /\ demographic_data = <<AgentRow>>
    /\ communes \in {<<c>> : c \in {n \in NewCommunes(AgentRow) :
                                      n.maternal_agents[1].attributes \in AgentProfiles}}
    /\ results = NoResults
    /\ run = Idle
    /\ last = NoCall

Mothers == communes[1].maternal_agents

SetMother(i, a) == [communes EXCEPT ![1].maternal_agents[i] = a]

CallBecomePregnant ==
    \E i \in 1..Len(Mothers) :
        /\ communes' = SetMother(i, become_pregnant(Mothers[i]))
        /\ last' = Call("become_pregnant", i, FALSE, 0)
        /\ UNCHANGED <<results, demographic_data, run>>

CallProgressPregnancy ==
    \E i \in 1..Len(Mothers) :
        /\ Mothers[i].weeks_pregnant < MaxWeeksPregnant
        /\ communes' = SetMother(i, progress_pregnancy(Mothers[i]))
        /\ last' = Call("progress_pregnancy", i, FALSE, 0)
        /\ UNCHANGED <<results, demographic_data, run>>

CallSeekAncCare ==
    \E i \in 1..Len(Mothers), active \in AgentActiveInputs :
        \E r \in seek_anc_care(Mothers[i], active) :
            /\ communes' = SetMother(i, r.agent)
            /\ last' = Call("seek_anc_care", i, r.ret, Mothers[i].anc_visits)
            /\ UNCHANGED <<results, demographic_data, run>>

CallGiveBirth ==
    \E i \in 1..Len(Mothers) :
        \E r \in give_birth(Mothers[i]) :
            /\ communes' = SetMother(i, r.agent)
            /\ last' = Call("give_birth", i, r.ret, Mothers[i].weeks_pregnant)
            /\ UNCHANGED <<results, demographic_data, run>>

CallConductVisit ==
    \E k \in 1..Len(communes[1].chw_agents), i \in 1..Len(Mothers) :
        LET v == conduct_visit(communes[1].chw_agents[k], Mothers[i])
        IN  /\ communes' = [communes EXCEPT ![1].chw_agents[k] = v.chw,
                                            ![1].maternal_agents[i] = v.target]
            /\ last' = Call("conduct_visit", k, v.ret,
                            communes[1].chw_agents[k].visits_this_month)
            /\ UNCHANGED <<results, demographic_data, run>>

CallStep ==
    \E week \in AgentWeekInputs, active \in AgentActiveInputs :
        \E c \in step(communes[1], week, active) :
            /\ \A i \in 1..Len(Mothers) : Mothers[i].weeks_pregnant < MaxWeeksPregnant
            /\ communes' = [communes EXCEPT ![1] = c]
            /\ last' = Call("step", 0, FALSE, week)
            /\ UNCHANGED <<results, demographic_data, run>>

NextAgent ==
    \/ CallBecomePregnant
    \/ CallProgressPregnancy
    \/ CallSeekAncCare
    \/ CallGiveBirth
    \/ CallConductVisit
    \/ CallStep

SpecAgent == InitAgent /\ [][NextAgent]_vars

-----------------------------------------------------------------------------
(* Claims on the agents' methods (SpecAgent) *)

Chws == communes[1].chw_agents

\* C1: anc_visits never exceeds anc_target (4) under any sequence of
\* become_pregnant, progress_pregnancy, seek_anc_care, give_birth and step
\* calls, and seek_anc_care returns false and changes nothing when the agent is
\* not pregnant or already has anc_visits >= 4.
C1_AncVisitsCapped ==
    /\ [](\A i \in 1..Len(Mothers) : Mothers[i].anc_visits <= 4)
    /\ [][ (/\ last'.op = "seek_anc_care"
            /\ \/ ~Mothers[last'.who].is_pregnant
               \/ Mothers[last'.who].anc_visits >= 4)
           => (last'.ret = FALSE /\ communes' = communes) ]_vars

\* a pregnant agent with 4 visits was refused a fifth
C1_Witness ==
    /\ last.op = "seek_anc_care"
    /\ last.ret = FALSE
    /\ last.pre = 4
    /\ Mothers[last.who].is_pregnant
    /\ Mothers[last.who].anc_visits = 4

\* C2: give_birth with weeks_pregnant < 40 returns false and leaves the agent
\* unchanged; with weeks_pregnant >= 40 it always sets is_pregnant = false and
\* weeks_pregnant = 0, whichever way the skilled-attendant draw falls.
C2_GiveBirth ==
    [][ last'.op = "give_birth"
        => IF Mothers[last'.who].weeks_pregnant < 40
           THEN last'.ret = FALSE /\ communes' = communes
           ELSE /\ ~Mothers'[last'.who].is_pregnant
                /\ Mothers'[last'.who].weeks_pregnant = 0
                /\ last'.ret = Mothers'[last'.who].has_skilled_birth_attendant ]_vars

\* a birth at term without a skilled attendant ended the pregnancy all the same
C2_Witness ==
    /\ last.op = "give_birth"
    /\ last.pre >= 40
    /\ last.ret = FALSE
    /\ ~Mothers[last.who].is_pregnant
    /\ Mothers[last.who].weeks_pregnant = 0

\* C3: visits_this_month <= max_visits_per_month (20) always; conduct_visit at
\* full capacity returns false and mutates neither the CHW nor the target,
\* below capacity it sets target.chw_contacted, adds exactly 1 to
\* visits_this_month and returns true; the monthly reset of step puts the
\* counter back to 0, from where exactly max_visits_per_month visits succeed.
C3_ChwCapacity ==
    /\ [](\A k \in 1..Len(Chws) :
            /\ Chws[k].max_visits_per_month = 20
            /\ Chws[k].visits_this_month <= Chws[k].max_visits_per_month)
    /\ [][ /\ last'.op = "conduct_visit"
              => LET k == last'.who
                 IN  IF Chws[k].visits_this_month >= Chws[k].max_visits_per_month
                     THEN last'.ret = FALSE /\ communes' = communes
                     ELSE /\ last'.ret = TRUE
                          /\ \E i \in 1..Len(Mothers) :
                               communes' =
                                 [communes EXCEPT
                                    ![1].chw_agents[k].visits_this_month = @ + 1,
                                    ![1].maternal_agents[i].chw_contacted = TRUE]
           /\ (last'.op = "step" /\ last'.pre % 4 = 0)
              => \A k \in 1..Len(Chws) : Chws'[k].visits_this_month = 0 ]_vars

\* a CHW that has made its 20 visits refused the next one
C3_Witness ==
    /\ last.op = "conduct_visit"
    /\ last.ret = FALSE
    /\ last.pre = 20
    /\ Chws[last.who].visits_this_month = 20

-----------------------------------------------------------------------------
(* Spec: one Commune as run_scenario drives it: each active intervention    *)
(* applied once, then step for week 0, 1, ... with calculate_metrics after  *)
(* the step of every fourth week; the coverage given to apply_intervention  *)
(* is an input                                                              *)

ApplyCall(type, coverage) ==
    [Call("apply_intervention", 0, FALSE, coverage) EXCEPT !.arg = type]

\* coverage: the default 0.7 and full coverage, in percent
CoverageInputs == {70, 100}

CommuneRows ==
    {Row("A", "Dien Bien", w, k, 100) : w \in 0..MaxWomen, k \in 0..MaxChildren}

\* A commune is met by a scenario as built, or as earlier stepping left it
\* (run_scenario does not rebuild the communes): a woman drawn pregnant is in
\* her first week, or in her last with or without ANC visits behind her.
AsFound(a) ==
    IF a.is_pregnant
    THEN {a, [a EXCEPT !.weeks_pregnant = term_weeks - 1, !.anc_visits = 3],
             [a EXCEPT !.weeks_pregnant = term_weeks - 1]}
    ELSE {a}

CommunesAsFound(row) ==
    UNION { { [c EXCEPT !.maternal_agents = m]
              : m \in Product([i \in 1..Len(c.maternal_agents) |->
                                 AsFound(c.maternal_agents[i])]) }
            : c \in NewCommunes(row) }

\* the order in which run_scenario meets the keys of the interventions dict
InterventionOrder == <<"app_based", "sms_outreach", "chw_visits", "incentives">>

\* every intervention type, active or not
ActiveTypes_All(active) == InterventionOrder

\* the active intervention types, in that order
ActiveTypes(active) == SelectSeq(InterventionOrder, LAMBDA t : t \in active)

\* the driver's position: the scenario's interventions, the types still to
\* apply, the week of the loop, and whether its step is done
Driver(active, todo, week, stepped) ==
    [op |-> "commune", active |-> active, todo |-> todo, week |-> week,
     stepped |-> stepped]

Init ==
    /\ demographic_data \in {<<row>> : row \in CommuneRows}
    /\ communes \in {<<c>> : c \in CommunesAsFound(demographic_data[1])}
    /\ results = NoResults
    /\ run \in {Driver(active, ActiveTypes(active), 0, FALSE) : active \in ActiveInputs}
    /\ last = NoCall

ApplyIntervention ==
    /\ run.todo # <<>>
    /\ \E coverage \in CoverageInputs :
        \E c \in apply_intervention(communes[1], Head(run.todo), coverage) :
            /\ communes' = <<c>>
            /\ run' = [run EXCEPT !.todo = Tail(@)]
            /\ last' = ApplyCall(Head(run.todo), coverage)
            /\ UNCHANGED <<results, demographic_data>>

StepCommune ==
    /\ run.todo = <<>>
    /\ ~run.stepped
    /\ run.week < MaxWeek
    /\ \E c \in step(communes[1], run.week, run.active) :
            /\ communes' = <<c>>
            /\ run' = IF run.week % metrics_every = 0
                      THEN [run EXCEPT !.stepped = TRUE]
                      ELSE [run EXCEPT !.week = @ + 1]
            /\ last' = Call("step", 0, FALSE, run.week)
            /\ UNCHANGED <<results, demographic_data>>

CalculateMetrics ==
    /\ run.stepped
    /\ communes' = <<calculate_metrics(communes[1])>>
    /\ run' = [run EXCEPT !.week = @ + 1, !.stepped = FALSE]
    /\ last' = Call("calculate_metrics", 0, FALSE, run.week)
    /\ UNCHANGED <<results, demographic_data>>

Next ==
    \/ ApplyIntervention
    \/ StepCommune
    \/ CalculateMetrics

Spec == Init /\ [][Next]_vars

-----------------------------------------------------------------------------
(* Claims on the metrics of a commune (Spec) *)

Children == communes[1].child_agents

\* a rate that is a fraction between 0 and 1
InUnit(r) == r.den > 0 /\ 0 <= r.num /\ r.num <= r.den

RatesInUnit(mt) ==
    /\ InUnit(mt.anc_coverage)
    /\ InUnit(mt.skilled_birth_attendance)
    /\ InUnit(mt.immunization_coverage)
    /\ InUnit(mt.digital_engagement)
    /\ mt.care_seeking_delays \in Nat

\* C8: in every metrics snapshot, computed in any reachable commune state,
\* anc_coverage, skilled_birth_attendance, immunization_coverage and
\* digital_engagement lie in [0,1] and care_seeking_delays is a non-negative
\* integer.
C8_MetricsInRange ==
    /\ RatesInUnit(Metrics(communes[1]))
    /\ RatesInUnit(communes[1].metrics)

\* a snapshot with half the ANC coverage, births with a skilled attendant and
\* some digital engagement
C8_Witness ==
    /\ last.op = "calculate_metrics"
    /\ communes[1].metrics.anc_coverage = Divide(1, 2)
    /\ communes[1].metrics.skilled_birth_attendance.num >= 1
    /\ communes[1].metrics.digital_engagement.num > 0
    /\ communes[1].metrics.digital_engagement.num
         < communes[1].metrics.digital_engagement.den

\* C9: calculate_metrics never fails on an empty denominator: with no agent
\* pregnant or with anc_visits > 0, anc_coverage = 0; with no agent with
\* anc_visits > 0, skilled_birth_attendance = 0; with no child aged >= 12
\* months, immunization_coverage = 0; with no mobile-access agent,
\* digital_engagement = 0.
C9_EmptyDenominators ==
    LET mt == Metrics(communes[1])
    IN  /\ mt.anc_coverage.den # 0
        /\ mt.skilled_birth_attendance.den # 0
        /\ mt.immunization_coverage.den # 0
        /\ mt.digital_engagement.den # 0
        /\ (\A i \in 1..Len(Mothers) :
               ~Mothers[i].is_pregnant /\ Mothers[i].anc_visits = 0)
           => mt.anc_coverage = Zero
        /\ (\A i \in 1..Len(Mothers) : Mothers[i].anc_visits = 0)
           => mt.skilled_birth_attendance = Zero
        /\ (\A j \in 1..Len(Children) : Children[j].age_months < 12)
           => mt.immunization_coverage = Zero
        /\ (\A i \in 1..Len(Mothers) : ~Mothers[i].attributes.mobile_access)
           => mt.digital_engagement = Zero
        /\ last.op = "calculate_metrics" => communes[1].metrics = mt

\* the metrics were computed for a commune with women and a child, all four
\* denominators empty
C9_Witness ==
    /\ last.op = "calculate_metrics"
    /\ Len(Mothers) >= 1
    /\ Len(Children) >= 1
    /\ \A i \in 1..Len(Mothers) :
         /\ ~Mothers[i].is_pregnant
         /\ Mothers[i].anc_visits = 0
         /\ ~Mothers[i].attributes.mobile_access
    /\ \A j \in 1..Len(Children) : Children[j].age_months < 12
    /\ communes[1].metrics.anc_coverage = Zero
    /\ communes[1].metrics.skilled_birth_attendance = Zero
    /\ communes[1].metrics.immunization_coverage = Zero
    /\ communes[1].metrics.digital_engagement = Zero

\* C10: in a commune where every maternal agent has mobile_access = false,
\* after the app_based intervention (any coverage) and any number of steps no
\* agent has app_engagement > 0 and the digital_engagement metric is 0.
C10_NoMobileNoEngagement ==
    (\A i \in 1..Len(Mothers) : ~Mothers[i].attributes.mobile_access)
    => /\ \A i \in 1..Len(Mothers) : Mothers[i].app_engagement = 0
       /\ Metrics(communes[1]).digital_engagement = Zero
       /\ communes[1].metrics.digital_engagement = Zero

\* app_based was applied to two women without mobile access, the commune was
\* stepped and its metrics computed
C10_Witness ==
    /\ last.op = "calculate_metrics"
    /\ "app_based" \in run.active
    /\ run.todo = <<>>
    /\ Len(Mothers) = 2
    /\ \A i \in 1..Len(Mothers) : ~Mothers[i].attributes.mobile_access
    /\ communes[1].metrics.digital_engagement = Zero

-----------------------------------------------------------------------------
(* SpecChw: a commune with more eligible women than its one CHW can visit   *)
(* in a month, given the calls the scenarios make on it one after another:  *)
(* apply_intervention("chw_visits") and step for week 0, 1, ...             *)

\* a poor woman far from the facility, without a phone
ChwProfile ==
    CHOOSE at \in MaternalProfiles : at.poverty_level > 60 /\ ~at.mobile_access

\* Every woman was drawn pregnant and has had her four ANC visits, as four
\* weeks of an earlier scenario leave her: stepping then only adds weeks.
ChwCommune ==
    LET row == Row("A", "Dien Bien", ChwWomen, 0, 100)
    IN  [name |-> row.commune, province |-> row.province, demographic_data |-> row,
         maternal_agents |->
             [i \in 1..ChwWomen |->
                 [become_pregnant(MaternalAgent(i, ChwProfile))
                    EXCEPT !.weeks_pregnant = 5, !.anc_visits = anc_target]],
         child_agents |-> <<>>,
         chw_agents |-> [i \in 1..NumChw(row) |-> CHWAgent(i)],
         health_facilities |-> <<HealthFacility(1)>>,
         metrics |-> InitialMetrics]

ChwActive == {"chw_visits"}

InitChw ==
    /\ demographic_data = <<ChwCommune.demographic_data>>
    /\ communes = <<ChwCommune>>
    /\ results = NoResults
    /\ run = [op |-> "chw", week |-> 0]
    /\ last = NoCall

\* apply_intervention("chw_visits", 1.0), at the start of a scenario
ChwApply ==
    \E c \in apply_intervention(communes[1], "chw_visits", 100) :
        /\ communes' = <<c>>
        /\ last' = ApplyCall("chw_visits", 100)
        /\ UNCHANGED <<results, demographic_data, run>>

\* step(week, {"chw_visits": True})
ChwStep ==
    /\ run.week < ChwWeeks
    /\ \E c \in step(communes[1], run.week, ChwActive) :
         /\ communes' = <<c>>
         /\ last' = Call("step", 0, FALSE, run.week)
    /\ run' = [run EXCEPT !.week = @ + 1]
    /\ UNCHANGED <<results, demographic_data>>

NextChw ==
    \/ ChwApply
    \/ ChwStep

SpecChw == InitChw /\ [][NextChw]_vars

\* C4: after the CHW-visit intervention is applied to a commune whose eligible
\* population is larger than the total CHW capacity, the number of maternal
\* agents with chw_contacted = true is at most total_visits_possible, the sum
\* of max_visits_per_month over the commune's CHWs.
C4_ContactedWithinCapacity ==
    ( /\ last.op = "apply_intervention"
      /\ last.arg = "chw_visits"
      /\ Cardinality(ChwEligible(communes[1])) > TotalVisitsPossible(communes[1]) )
    => Cardinality({i \in 1..Len(Mothers) : Mothers[i].chw_contacted})
         <= TotalVisitsPossible(communes[1])

-----------------------------------------------------------------------------
(* ABMSimulation *)

\* coverage: float = 0.7, the default run_scenario leaves in place (percent)
default_coverage == 70

\* _initialize_communes: one new Commune per input row, appended to the list
\* cs the simulation already holds
InitializeCommunes(cs, rows) ==
    {cs \o new : new \in Product([r \in 1..Len(rows) |-> NewCommunes(rows[r])])}

\* the inner loop of "Apply interventions at the start", for one commune
RECURSIVE ApplyTypes(_, _)
ApplyTypes(c, types) ==
    IF types = <<>> THEN {c}
    ELSE UNION { ApplyTypes(c2, Tail(types))
                 : c2 \in apply_intervention(c, Head(types), default_coverage) }

\* the test `week % 4 == 0` before calculate_metrics, read on the week just stepped
RecordsMetrics_AfterFourWeeks(week) == (week + 1) % metrics_every = 0

\* `if week % 4 == 0`: the weeks whose metrics run_scenario records
RecordsMetrics(week) == week % metrics_every = 0

\* the turn of a commune whose metrics are computed before its step
StepAndRecord_MetricsBeforeStep(c, week, active) ==
    { IF week % metrics_every = 0 THEN [st EXCEPT !.metrics = Metrics(c)] ELSE st
      : st \in step(c, week, active) }

\* one commune's turn in the loop of a week
StepAndRecord(c, week, active) ==
    { IF RecordsMetrics(week) THEN calculate_metrics(st) ELSE st
      : st \in step(c, week, active) }

\* commune_result: name, province and week with the metrics just computed
commune_result(c, week) ==
    [commune |-> c.name, province |-> c.province, week |-> week,
     anc_coverage |-> c.metrics.anc_coverage,
     skilled_birth_attendance |-> c.metrics.skilled_birth_attendance,
     immunization_coverage |-> c.metrics.immunization_coverage,
     digital_engagement |-> c.metrics.digital_engagement,
     care_seeking_delays |-> c.metrics.care_seeking_delays]

\* the apply_intervention calls of "Apply interventions at the start", in call
\* order: <<i, type>> for type applied to the i-th commune
Applications(cs, types) ==
    [n \in 1..(Len(cs) * Len(types)) |->
       <<((n - 1) \div Len(types)) + 1, types[((n - 1) % Len(types)) + 1]>>]

\* the position of a run_scenario call: pc is "init" before the reset of
\* run_all_scenarios, "apply" at the start of the scenario, "week" in the
\* loop, "done" after the return; idx is the scenario's place in
\* run_all_scenarios, 0 for a call from outside; applied is the record of the
\* apply_intervention calls the call has made
ScenarioRun(call, idx, pc, name, d) ==
    [op |-> "sim", call |-> call, idx |-> idx, pc |-> pc, scenario_name |-> name,
     interventions |-> ScenarioInterventions[name], duration_weeks |-> d,
     week |-> 0, scenario_results |-> <<>>, applied |-> <<>>]

\* the input rows of the simulation: one commune, of one woman and her child
\* for a single scenario, of one woman for the series of scenarios
ScenarioRow == Row("A", "Dien Bien", 1, 1, 100)
SimRow == Row("A", "Dien Bien", 1, 0, 100)

\* run_all_scenarios: "# Reset simulation state"
ResetCommunes ==
    /\ run.op = "sim"
    /\ run.pc = "init"
    /\ communes' \in InitializeCommunes(communes, demographic_data)
    /\ run' = [run EXCEPT !.pc = "apply"]
    /\ UNCHANGED <<results, demographic_data, last>>

\* run_scenario: "# Apply interventions at the start"
ApplyInterventions ==
    /\ run.op = "sim"
    /\ run.pc = "apply"
    /\ communes' \in Product([i \in 1..Len(communes) |->
                                ApplyTypes(communes[i], ActiveTypes(run.interventions))])
    /\ run' = [run EXCEPT
                 !.pc = "week", !.week = 0, !.scenario_results = <<>>,
                 !.applied = @ \o Applications(communes, ActiveTypes(run.interventions))]
    /\ UNCHANGED <<results, demographic_data, last>>

\* run_scenario: one pass of `for week in range(duration_weeks)`
SimulateWeek ==
    /\ run.op = "sim"
    /\ run.pc = "week"
    /\ run.week < run.duration_weeks
    /\ communes' \in Product([i \in 1..Len(communes) |->
                                StepAndRecord(communes[i], run.week, run.interventions)])
    /\ run' = [run EXCEPT
                 !.week = @ + 1,
                 !.scenario_results =
                     IF RecordsMetrics(run.week)
                     THEN @ \o [i \in 1..Len(communes) |->
                                  commune_result(communes'[i], run.week)]
                     ELSE @]
    /\ UNCHANGED <<results, demographic_data, last>>

\* run_scenario: self.results[scenario_name] = scenario_results and the
\* return; run_all_scenarios then goes on to its next scenario
FinishScenario ==
    /\ run.op = "sim"
    /\ run.pc = "week"
    /\ run.week = run.duration_weeks
    /\ results' = (run.scenario_name :> run.scenario_results) @@ results
    /\ run' = IF /\ run.call = "run_all_scenarios"
                 /\ run.idx < Min(MaxScenarios, Len(ScenarioNames))
              THEN ScenarioRun(run.call, run.idx + 1, "init",
                               ScenarioNames[run.idx + 1], run.duration_weeks)
              ELSE [run EXCEPT !.pc = "done"]
    /\ UNCHANGED <<communes, demographic_data, last>>

\* ABMSimulation(data_path): the communes built once by __init__
Constructed(row) ==
    /\ demographic_data = <<row>>
    /\ communes \in InitializeCommunes(<<>>, demographic_data)
    /\ results = NoResults
    /\ last = NoCall

-----------------------------------------------------------------------------
(* SpecScenario: run_scenario(name, duration_weeks, interventions) called   *)
(* once on a simulation just constructed                                    *)

ScenarioInputs == {ScenarioNames[n] : n \in 1..Len(ScenarioNames)}

InitScenario ==
    /\ Constructed(ScenarioRow)
    /\ run \in {ScenarioRun("run_scenario", 0, "apply", name, d)
                : name \in ScenarioInputs, d \in 1..MaxDuration}

NextScenario ==
    \/ ApplyInterventions
    \/ SimulateWeek
    \/ FinishScenario

SpecScenario == InitScenario /\ [][NextScenario]_vars

\* the baseline call of 8 weeks on a single commune has returned
BaselineEightWeeksDone ==
    /\ run.op = "sim"
    /\ run.pc = "done"
    /\ run.scenario_name = "baseline"
    /\ run.duration_weeks = 8
    /\ Len(communes) = 1

\* C7: the baseline scenario run for 8 weeks on a single commune records a
\* metric snapshot for week 0 and for week 4 and for no other week (the loop
\* runs weeks 0..7, so there is none for week 8), and anc_coverage <= 1.0 in
\* every recorded snapshot.
C7_BaselineSnapshots ==
    BaselineEightWeeksDone
    => LET rows == results["baseline"]
       IN  /\ Len(rows) = 2
           /\ rows[1].week = 0
           /\ rows[2].week = 4
           /\ \A i \in 1..Len(rows) :
                /\ rows[i].anc_coverage.den > 0
                /\ rows[i].anc_coverage.num <= rows[i].anc_coverage.den

\* the call has returned its two snapshots, the pregnant woman counted as
\* covered in the second
C7_Witness ==
    /\ BaselineEightWeeksDone
    /\ Len(results["baseline"]) = 2
    /\ results["baseline"][1].anc_coverage = Divide(0, 1)
    /\ results["baseline"][2].anc_coverage = Divide(1, 1)

\* C7 as stated: snapshots for week 4 and for week 8 exist, anc_coverage <= 1.0
C7_SnapshotsWeek4AndWeek8 ==
    BaselineEightWeeksDone
    => LET rows == results["baseline"]
       IN  /\ \E i \in 1..Len(rows) : rows[i].week = 4
           /\ \E i \in 1..Len(rows) : rows[i].week = 8
           /\ \A i \in 1..Len(rows) :
                rows[i].anc_coverage.num <= rows[i].anc_coverage.den

-----------------------------------------------------------------------------
(* SpecSim: run_all_scenarios(duration_weeks) called on a simulation just   *)
(* constructed, followed through its first MaxScenarios scenarios            *)

InitSim ==
    /\ Constructed(SimRow)
    /\ run \in {ScenarioRun("run_all_scenarios", 1, "init", ScenarioNames[1], d)
                : d \in 1..MaxDurationAll}

NextSim ==
    \/ ResetCommunes
    \/ ApplyInterventions
    \/ SimulateWeek
    \/ FinishScenario

SpecSim == InitSim /\ [][NextSim]_vars

\* C5: at the start of every scenario run the list of Communes holds exactly
\* one freshly initialized Commune per input demographic row, with no state
\* left from construction or from an earlier scenario.
C5_RebuiltAtScenarioStart ==
    (run.op = "sim" /\ run.pc = "apply")
    => /\ Len(communes) = Len(demographic_data)
       /\ \A i \in 1..Len(communes) :
            i <= Len(demographic_data) => communes[i] \in NewCommunes(demographic_data[i])

\* C6: the results hold one record per (scenario, commune, recorded week): no
\* two records of a scenario share the commune name and the week.
C6_OneRecordPerCommuneWeek ==
    \A name \in DOMAIN results :
        \A i, j \in 1..Len(results[name]) :
            (results[name][i].commune = results[name][j].commune
             /\ results[name][i].week = results[name][j].week) => i = j

-----------------------------------------------------------------------------
(* Claims on the population of a commune (Spec) *)

\* who is in the four collections of a commune, in order
Membership(c) ==
    [maternal |-> [i \in 1..Len(c.maternal_agents) |-> c.maternal_agents[i].agent_id],
     child |-> [j \in 1..Len(c.child_agents) |->
                  <<c.child_agents[j].agent_id, c.child_agents[j].mother_id>>],
     chw |-> [k \in 1..Len(c.chw_agents) |-> c.chw_agents[k].agent_id],
     facility |-> [f \in 1..Len(c.health_facilities) |->
                     c.health_facilities[f].facility_id]]

\* C11: after initialization the membership of the commune's maternal, child,
\* CHW and facility collections never changes under apply_intervention, step
\* and calculate_metrics; the sizes stay those of the input row, and a birth in
\* step changes the mother only and adds no ChildAgent.
C11_MembershipFixed ==
    /\ [](/\ Len(Mothers) = demographic_data[1].women_15_49
          /\ Len(Children) = demographic_data[1].children_under_5
          /\ Len(Chws) = NumChw(demographic_data[1])
          /\ Len(communes[1].health_facilities) = 1)
    /\ [][Membership(communes'[1]) = Membership(communes[1])]_vars

\* a step in which a woman gave birth with a skilled attendant has left the
\* commune with its two women and its one child
C11_Witness ==
    /\ last.op = "step"
    /\ Len(Mothers) = 2
    /\ Len(Children) = 1
    /\ \E i \in 1..Len(Mothers) :
         /\ ~Mothers[i].is_pregnant
         /\ Mothers[i].has_skilled_birth_attendant

-----------------------------------------------------------------------------
(* The pseudorandom generator: random.seed(42) at import, then one value of  *)
(* the seed's stream for each random.random() call, in call order            *)

module_seed == 42

\* the seed of the generator in the execution-th run of the program
SeedOf_PerRun(execution) == module_seed + execution

SeedOf(execution) == module_seed

\* the values random.random() returns, in units of 1/Scale: the two ends of [0, 1)
DrawValues == {0, Scale - 1}

\* rng = [s, n]: the stream ahead and how many of its values have been read
NextDraw(rng) == [u |-> rng.s[rng.n + 1], rng |-> [rng EXCEPT !.n = @ + 1]]

\* seek_anc_care reading the generator: the second draw is made only when
\* the first one passes
seek_anc_care_seeded(a, active, rng) ==
    IF anc_refused(a) THEN [agent |-> a, rng |-> rng]
    ELSE LET d1 == NextDraw(rng)
         IN  IF d1.u < anc_final_prob(a, active)
             THEN LET d2 == NextDraw(d1.rng)
                  IN  IF d2.u > a.care_seeking_threshold
                      THEN [agent |-> [a EXCEPT !.anc_visits = @ + 1], rng |-> d2.rng]
                      ELSE [agent |-> a, rng |-> d2.rng]
             ELSE [agent |-> a, rng |-> d1.rng]

give_birth_seeded(a, rng) ==
    IF a.weeks_pregnant >= term_weeks
    THEN LET d == NextDraw(rng)
         IN  [agent |-> [a EXCEPT !.has_skilled_birth_attendant =
                                      (d.u < birth_final_prob(a)),
                                  !.is_pregnant = FALSE,
                                  !.weeks_pregnant = 0],
              rng |-> d.rng]
    ELSE [agent |-> a, rng |-> rng]

\* one maternal agent's turn in step
StepMaternalSeeded(a, active, rng) ==
    IF a.is_pregnant
    THEN LET sought == seek_anc_care_seeded(progress_pregnancy(a), active, rng)
         IN  give_birth_seeded(sought.agent, sought.rng)
    ELSE LET d == NextDraw(rng)
         IN  [agent |-> IF d.u < pregnancy_chance THEN become_pregnant(a) ELSE a,
              rng |-> d.rng]

\* `for agent in self.maternal_agents`, from the i-th agent on
RECURSIVE StepMothersSeeded(_, _, _, _)
StepMothersSeeded(m, i, active, rng) ==
    IF i > Len(m) THEN [m |-> m, rng |-> rng]
    ELSE LET r == StepMaternalSeeded(m[i], active, rng)
         IN  StepMothersSeeded([m EXCEPT ![i] = r.agent], i + 1, active, r.rng)

\* one child's turn in the monthly loop
StepChildSeeded(ch, mothers, active, rng) ==
    LET mi == FindMother(mothers, ch.mother_id)
    IN  IF mi = 0 \/ ~need_immunization(ch) THEN [child |-> ch, rng |-> rng]
        ELSE LET d == NextDraw(rng)
             IN  [child |-> IF d.u < care_final_prob(mothers[mi], active)
                            THEN [ch EXCEPT !.immunizations_received = @ + 1]
                            ELSE [ch EXCEPT !.care_seeking_delays = @ + 1],
                  rng |-> d.rng]

\* `for child in self.child_agents`, from the j-th child on
RECURSIVE StepChildrenSeeded(_, _, _, _, _)
StepChildrenSeeded(k, j, mothers, active, rng) ==
    IF j > Len(k) THEN [k |-> k, rng |-> rng]
    ELSE LET r == StepChildSeeded(k[j], mothers, active, rng)
         IN  StepChildrenSeeded([k EXCEPT ![j] = r.child], j + 1, mothers, active, r.rng)

\* step(week, intervention_active) reading the generator: the commune it
\* leaves and the generator afterwards
step_seeded(c, week, active, rng) ==
    LET monthly == (week % metrics_every = 0)
        mothers == StepMothersSeeded(c.maternal_agents, 1, active, rng)
        children == IF monthly
                    THEN StepChildrenSeeded(c.child_agents, 1, mothers.m, active,
                                            mothers.rng)
                    ELSE [k |-> c.child_agents, rng |-> mothers.rng]
    IN  [commune |-> [c EXCEPT
                        !.chw_agents = IF monthly THEN ResetChw(@) ELSE @,
                        !.health_facilities = IF monthly THEN ResetFacilities(@) ELSE @,
                        !.maternal_agents = mothers.m,
                        !.child_agents = children.k],
         rng |-> children.rng]

\* the most draws step(week) of the commune can make: two for the ANC visit of
\* a pregnant woman and one for her birth at term, one for the pregnancy of
\* any other woman, one for each child in the monthly loop
DrawsPerStep(c, week) ==
    SumSeq([i \in 1..Len(c.maternal_agents) |->
              IF ~c.maternal_agents[i].is_pregnant THEN 1
              ELSE IF c.maternal_agents[i].weeks_pregnant + 1 >= term_weeks THEN 3
              ELSE 2])
    + (IF week % metrics_every = 0 THEN Len(c.child_agents) ELSE 0)

\* `for commune in self.communes` of one week, from the i-th commune on:
\* step, then calculate_metrics in a recorded week
RECURSIVE WeekSeeded(_, _, _, _, _)
WeekSeeded(cs, i, week, active, rng) ==
    IF i > Len(cs) THEN [communes |-> cs, rng |-> rng]
    ELSE LET r == step_seeded(cs[i], week, active, rng)
             c == IF RecordsMetrics(week) THEN calculate_metrics(r.commune)
                  ELSE r.commune
         IN  WeekSeeded([cs EXCEPT ![i] = c], i + 1, week, active, r.rng)

\* the rows a recorded week adds to scenario_results
WeekRows(cs, week) ==
    IF RecordsMetrics(week)
    THEN [i \in 1..Len(cs) |-> commune_result(cs[i], week)]
    ELSE <<>>

\* what the generator of a seed has returned so far, with the values read now
Revealed(history, n, rng) ==
    IF n + rng.n > Len(history)
    THEN SubSeq(history, 1, n) \o SubSeq(rng.s, 1, rng.n)
    ELSE history

\* the generator of an execution that has read n values: what its seed has
\* returned beyond them, then values u not yet known
Generator(history, n, u) ==
    [s |-> SubSeq(history, n + 1, Len(history)) \o u, n |-> 0]

-----------------------------------------------------------------------------
(* SpecSeed: run_scenario executed twice by the program, each execution on  *)
(* the simulation as constructed, with the same arguments; the executions   *)
(* advance week by week side by side                                        *)

SeedScenarios == {"baseline", "combined"}

\* execution 1 is in communes, results and the scenario fields; execution 2
\* in twin; stream[seed] is what the generator seeded with seed has returned
\* so far, read[e] how many of these values execution e has read
SeedRun(name, d, cs) ==
    [op |-> "seed", pc |-> "apply", scenario_name |-> name,
     interventions |-> ScenarioInterventions[name], duration_weeks |-> d,
     week |-> 0, scenario_results |-> <<>>,
     twin |-> [communes |-> cs, scenario_results |-> <<>>, results |-> NoResults],
     stream |-> [seed \in {SeedOf(1), SeedOf(2)} |-> <<>>],
     read |-> <<0, 0>>]

InitSeed ==
    /\ Constructed(ScenarioRow)
    /\ run \in {SeedRun(name, d, communes) : name \in SeedScenarios, d \in 1..MaxSeedWeeks}

SeedApply ==
    /\ run.op = "seed"
    /\ run.pc = "apply"
    /\ communes' \in Product([i \in 1..Len(communes) |->
                                ApplyTypes(communes[i], ActiveTypes(run.interventions))])
    /\ \E cs \in Product([i \in 1..Len(run.twin.communes) |->
                            ApplyTypes(run.twin.communes[i],
                                       ActiveTypes(run.interventions))]) :
         run' = [run EXCEPT !.pc = "week", !.twin.communes = cs]
    /\ UNCHANGED <<results, demographic_data, last>>

SeedWeek ==
    /\ run.op = "seed"
    /\ run.pc = "week"
    /\ run.week < run.duration_weeks
    /\ \E u1, u2 \in [1..SumSeq([i \in 1..Len(communes) |-> DrawsPerStep(communes[i], run.week)])
                      -> DrawValues] :
       \E e1 \in {WeekSeeded(communes, 1, run.week, run.interventions,
                             Generator(run.stream[SeedOf(1)], run.read[1], u1))} :
       \E stream1 \in {[run.stream EXCEPT
                          ![SeedOf(1)] = Revealed(@, run.read[1], e1.rng)]} :
       \E e2 \in {WeekSeeded(run.twin.communes, 1, run.week, run.interventions,
                             Generator(stream1[SeedOf(2)], run.read[2], u2))} :
         /\ communes' = e1.communes
         /\ run' = [run EXCEPT
                      !.week = @ + 1,
                      !.scenario_results = @ \o WeekRows(e1.communes, run.week),
                      !.twin.communes = e2.communes,
                      !.twin.scenario_results = @ \o WeekRows(e2.communes, run.week),
                      !.stream = [stream1 EXCEPT
                                    ![SeedOf(2)] = Revealed(@, run.read[2], e2.rng)],
                      !.read = <<run.read[1] + e1.rng.n, run.read[2] + e2.rng.n>>]
    /\ UNCHANGED <<results, demographic_data, last>>

SeedFinish ==
    /\ run.op = "seed"
    /\ run.pc = "week"
    /\ run.week = run.duration_weeks
    /\ results' = (run.scenario_name :> run.scenario_results) @@ results
    /\ run' = [run EXCEPT
                 !.pc = "done",
                 !.twin.results = (run.scenario_name :> run.twin.scenario_results) @@ @]
    /\ UNCHANGED <<communes, demographic_data, last>>

NextSeed ==
    \/ SeedApply
    \/ SeedWeek
    \/ SeedFinish

SpecSeed == InitSeed /\ [][NextSeed]_vars

-----------------------------------------------------------------------------
(* SpecAttr: one woman created with any attributes of a grid over the draws *)
(* of _initialize_agents, then the commune's operations on her              *)

\* age: randint(15, 49); literacy_level: max(0.0, normal), which has no upper
\* end; poverty_level: within [0, 1]; distance_to_facility: any distance >= 0
AttributeGrid ==
    { Attributes(age, eth, lit, pov, mob, net, dist)
      : age \in {15, 49}, eth \in {"Kinh", "Hmong"}, lit \in {0, 60, 200},
        pov \in {0, 100}, mob \in BOOLEAN, net \in BOOLEAN, dist \in {0, 1000} }

AttrRow == Row("A", "Dien Bien", 1, 0, 100)

AttrCommune(at) ==
    [name |-> AttrRow.commune, province |-> AttrRow.province,
     demographic_data |-> AttrRow,
     maternal_agents |-> <<MaternalAgent(1, at)>>,
     child_agents |-> <<>>,
     chw_agents |-> [i \in 1..NumChw(AttrRow) |-> CHWAgent(i)],
     health_facilities |-> <<HealthFacility(1)>>,
     metrics |-> InitialMetrics]

InitAttr ==
    /\ demographic_data = <<AttrRow>>
    /\ communes \in {<<AttrCommune(at)>> : at \in AttributeGrid}
    /\ results = NoResults
    /\ run = Idle
    /\ last = NoCall

AttrApply ==
    \E type \in InterventionTypes :
        \E c \in apply_intervention(communes[1], type, 100) :
            /\ communes' = <<c>>
            /\ last' = ApplyCall(type, 100)
            /\ UNCHANGED <<results, demographic_data, run>>

AttrStep ==
    /\ \A i \in 1..Len(Mothers) : Mothers[i].weeks_pregnant < AttrWeeks
    /\ \E active \in AgentActiveInputs :
         \E c \in step(communes[1], 0, active) :
            /\ communes' = <<c>>
            /\ last' = Call("step", 0, FALSE, 0)
            /\ UNCHANGED <<results, demographic_data, run>>

NextAttr ==
    \/ AttrApply
    \/ AttrStep

SpecAttr == InitAttr /\ [][NextAttr]_vars

\* the two thresholds of every maternal agent of the commune
Thresholds(c) ==
    [i \in 1..Len(c.maternal_agents) |->
       <<c.maternal_agents[i].care_seeking_threshold,
         c.maternal_agents[i].digital_engagement_threshold>>]

\* C13: for every combination of attributes care_seeking_threshold lies in
\* [0.1, 0.9], digital_engagement_threshold lies in [0.1, 0.9] with mobile
\* access and is exactly 1.0 without; both are fixed at creation and changed by
\* no later operation.
C13_ThresholdsInRange ==
    /\ [](\A i \in 1..Len(Mothers) :
            /\ Mothers[i].care_seeking_threshold >= Scale \div 10
            /\ Mothers[i].care_seeking_threshold <= 9 * (Scale \div 10)
            /\ IF Mothers[i].attributes.mobile_access
               THEN /\ Mothers[i].digital_engagement_threshold >= Scale \div 10
                    /\ Mothers[i].digital_engagement_threshold <= 9 * (Scale \div 10)
               ELSE Mothers[i].digital_engagement_threshold = Scale)
    /\ [][Thresholds(communes'[1]) = Thresholds(communes[1])]_vars

\* a woman whose literacy puts both sums below 0.1 has the two thresholds at
\* 0.1, still so once pregnant and reached by the SMS intervention
C13_Witness ==
    /\ last.op = "apply_intervention"
    /\ Mothers[1].attributes.literacy_level = 200
    /\ Mothers[1].attributes.ethnicity = "Kinh"
    /\ Mothers[1].care_seeking_threshold = Scale \div 10
    /\ Mothers[1].digital_engagement_threshold = Scale \div 10
    /\ Mothers[1].is_pregnant
    /\ Mothers[1].received_sms

-----------------------------------------------------------------------------
(* Claims on the course of run_scenario (SpecScenario) *)

\* how many times type was applied to the i-th commune
TimesApplied(i, type) ==
    Cardinality({n \in 1..Len(run.applied) : run.applied[n] = <<i, type>>})

\* the marks the interventions leave on the agents, and the CHW counters
InterventionMarks(cs) ==
    [i \in 1..Len(cs) |->
       [agents |-> [a \in 1..Len(cs[i].maternal_agents) |->
                      <<cs[i].maternal_agents[a].app_engagement,
                        cs[i].maternal_agents[a].received_sms,
                        cs[i].maternal_agents[a].chw_contacted>>],
        visits |-> [k \in 1..Len(cs[i].chw_agents) |->
                      cs[i].chw_agents[k].visits_this_month]]]

\* C14: within one run_scenario call each active intervention type is applied
\* to every Commune exactly once and no inactive type is applied; every
\* application comes before the first step, and the weekly stepping applies
\* none: it leaves the record of applications and the agents' intervention
\* marks as they were.
C14_AppliedOnceAtStart ==
    /\ []((run.op = "sim" /\ run.pc \in {"week", "done"})
          => \A i \in 1..Len(communes), type \in InterventionTypes :
               TimesApplied(i, type) = IF type \in run.interventions THEN 1 ELSE 0)
    /\ [][run'.applied # run.applied
          => (run.pc = "apply" /\ run.applied = <<>> /\ run'.week = 0
              /\ run'.scenario_results = <<>>)]_vars
    /\ [][run.pc = "week"
          => /\ run'.applied = run.applied
             /\ \A i \in 1..Len(communes) :
                  InterventionMarks(communes')[i].agents
                    = InterventionMarks(communes)[i].agents]_vars

\* the combined scenario has returned after two weeks or more, each of the
\* four types applied once to the commune
C14_Witness ==
    /\ run.op = "sim"
    /\ run.pc = "done"
    /\ run.scenario_name = "combined"
    /\ run.duration_weeks >= 2
    /\ run.applied = <<<<1, "app_based">>, <<1, "sms_outreach">>,
                       <<1, "chw_visits">>, <<1, "incentives">>>>

\* the row of week w for commune c, computed from the state st its step left
RowAfterStep(c, st, w) ==
    [commune |-> c.name, province |-> c.province, week |-> w,
     anc_coverage |-> Metrics(st).anc_coverage,
     skilled_birth_attendance |-> Metrics(st).skilled_birth_attendance,
     immunization_coverage |-> Metrics(st).immunization_coverage,
     digital_engagement |-> Metrics(st).digital_engagement,
     care_seeking_delays |-> Metrics(st).care_seeking_delays]

\* C15: run_scenario with duration d steps every Commune once for each week
\* 0..d-1 in increasing order, and records a row for a Commune exactly for the
\* weeks w in [0,d) with w mod 4 = 0, each row computed from the Commune's state
\* after its step for week w and tagged with its commune, province and w.
C15_StepsAndRows ==
    /\ []((run.op = "sim" /\ run.pc = "done")
          => LET rows == results[run.scenario_name]
                 n == Len(communes)
             IN  /\ run.week = run.duration_weeks
                 /\ Len(rows) = n * ((run.duration_weeks + 3) \div 4)
                 /\ \A r \in 1..Len(rows) :
                      /\ rows[r].week = 4 * ((r - 1) \div n)
                      /\ rows[r].week < run.duration_weeks
                      /\ rows[r].commune = communes[((r - 1) % n) + 1].name
                      /\ rows[r].province = communes[((r - 1) % n) + 1].province)
    /\ [][(run.pc = "week" /\ run'.pc = "week" /\ run' # run)
          => /\ run.week < run.duration_weeks
             /\ run'.week = run.week + 1
             /\ Len(communes') = Len(communes)
             /\ \A i \in 1..Len(communes) :
                  \E st \in step(communes[i], run.week, run.interventions) :
                     IF run.week % 4 = 0
                     THEN /\ communes'[i] = [st EXCEPT !.metrics = Metrics(st)]
                          /\ run'.scenario_results[Len(run.scenario_results) + i]
                               = RowAfterStep(communes[i], st, run.week)
                     ELSE communes'[i] = st
             /\ Len(run'.scenario_results)
                  = Len(run.scenario_results)
                    + (IF run.week % 4 = 0 THEN Len(communes) ELSE 0)
             /\ SubSeq(run'.scenario_results, 1, Len(run.scenario_results))
                  = run.scenario_results]_vars

\* a call of five weeks has returned the rows of week 0 and week 4, the child
\* immunized once by week 0 and twice by week 4
C15_Witness ==
    /\ run.op = "sim"
    /\ run.pc = "done"
    /\ run.duration_weeks = 5
    /\ Len(results[run.scenario_name]) = 2
    /\ results[run.scenario_name][1].immunization_coverage = Divide(1, 8)
    /\ results[run.scenario_name][2].immunization_coverage = Divide(2, 8)

-----------------------------------------------------------------------------
(* Claims on step and apply_intervention of a commune (Spec, SpecAttr) *)

\* C16: a child whose mother_id matches no agent of the commune's maternal
\* collection is skipped by step without error, its immunizations_received and
\* care_seeking_delays unchanged, while a child whose mother is found and who
\* needs an immunization is processed in the monthly loop: it receives one or
\* is counted one delay.
C16_UnresolvedMotherSkipped ==
    [][(last'.op = "step" /\ run' # run)
       => /\ Len(Children') = Len(Children)
          /\ \A j \in 1..Len(Children) :
               IF \A i \in 1..Len(Mothers) : Mothers[i].agent_id # Children[j].mother_id
               THEN /\ Children'[j].immunizations_received
                         = Children[j].immunizations_received
                    /\ Children'[j].care_seeking_delays = Children[j].care_seeking_delays
               ELSE (last'.pre % 4 = 0
                     /\ Children[j].immunizations_received
                          < Min(8, Children[j].age_months \div 2))
                    => \/ /\ Children'[j].immunizations_received
                               = Children[j].immunizations_received + 1
                          /\ Children'[j].care_seeking_delays
                               = Children[j].care_seeking_delays
                       \/ /\ Children'[j].immunizations_received
                               = Children[j].immunizations_received
                          /\ Children'[j].care_seeking_delays
                               = Children[j].care_seeking_delays + 1]_vars

\* the monthly loop of week 0 has passed over the child of a commune without
\* women, whose mother_id is the "Unknown" one
C16_Witness ==
    /\ last.op = "step"
    /\ last.pre = 0
    /\ Len(Mothers) = 0
    /\ Len(Children) = 1
    /\ Children[1].mother_id = 0
    /\ Children[1].age_months = 12
    /\ Children[1].immunizations_received = 0
    /\ Children[1].care_seeking_delays = 0

\* the agents none of whom the branch of an intervention type finds eligible
NoneEligible(m, type) ==
    \A i \in 1..Len(m) :
        CASE type = "app_based" ->
               ~(m[i].attributes.mobile_access /\ m[i].attributes.internet_access)
          [] type = "sms_outreach" -> ~m[i].attributes.mobile_access
          [] type = "chw_visits" ->
               ~(m[i].attributes.poverty_level > 60
                 \/ m[i].attributes.distance_to_facility > 50)
          [] OTHER -> FALSE

\* C17: apply_intervention of app_based, sms_outreach or chw_visits on a
\* commune none of whose agents is eligible for that type completes, targets
\* no agent, and leaves every agent and every CHW counter as it was.
C17_EmptyEligibleNoChange ==
    [][(last'.op = "apply_intervention" /\ NoneEligible(Mothers, last'.arg))
       => /\ Mothers' = Mothers
          /\ Chws' = Chws
          /\ communes' = communes]_vars

\* chw_visits has been applied at full coverage to a commune whose one woman
\* is eligible for none of the three types
C17_Witness ==
    /\ last.op = "apply_intervention"
    /\ last.arg = "chw_visits"
    /\ last.pre = 100
    /\ Len(Mothers) = 1
    /\ \A t \in {"app_based", "sms_outreach", "chw_visits"} : NoneEligible(Mothers, t)
    /\ Mothers[1].app_engagement = 0
    /\ ~Mothers[1].received_sms
    /\ ~Mothers[1].chw_contacted
    /\ Len(Chws) >= 1
    /\ \A k \in 1..Len(Chws) : Chws[k].visits_this_month = 0

-----------------------------------------------------------------------------
(* Claims on the order of the calls within step (SpecAgent, SpecChw) *)

\* a step that ends the pregnancy of agent i with one more ANC visit
StepVisitThenBirth(i) ==
    /\ CallStep
    /\ ~Mothers'[i].is_pregnant
    /\ Mothers'[i].anc_visits = Mothers[i].anc_visits + 1

\* C18: in a step every agent pregnant at the start of its turn is progressed
\* by one week, then may gain one ANC visit (none at the target of 4), then
\* gives birth if its weeks_pregnant has reached 40, all in that step; and in
\* the step in which weeks_pregnant reaches 40 an agent below the target can
\* gain a visit and give birth, ending the step not pregnant with the visit
\* counted in its anc_visits.
C18_ProgressSeekBirthInOrder ==
    /\ [][(last'.op = "step")
          => \A i \in 1..Len(Mothers) :
               Mothers[i].is_pregnant
               => /\ Mothers'[i].anc_visits - Mothers[i].anc_visits \in {0, 1}
                  /\ Mothers[i].anc_visits >= 4
                       => Mothers'[i].anc_visits = Mothers[i].anc_visits
                  /\ IF Mothers[i].weeks_pregnant + 1 >= 40
                     THEN ~Mothers'[i].is_pregnant /\ Mothers'[i].weeks_pregnant = 0
                     ELSE /\ Mothers'[i].is_pregnant
                          /\ Mothers'[i].weeks_pregnant = Mothers[i].weeks_pregnant + 1]_vars
    /\ [](\A i \in 1..Len(Mothers) :
            (/\ Mothers[i].is_pregnant
             /\ Mothers[i].weeks_pregnant = 39
             /\ Mothers[i].anc_visits < 4)
            => ENABLED StepVisitThenBirth(i))

\* a step has ended a pregnancy that had no ANC visit one call before its last
\* week, with one visit counted
C18_Witness ==
    /\ last.op = "step"
    /\ ~Mothers[1].is_pregnant
    /\ Mothers[1].weeks_pregnant = 0
    /\ Mothers[1].anc_visits = 1

-----------------------------------------------------------------------------
(* SpecMonth: the commune of SpecChw over the weeks of two monthly resets:   *)
(* apply_intervention("chw_visits"), serve_patient on its facility, and step *)
(* for week 0, 1, ...                                                        *)

Facilities == communes[1].health_facilities

InitMonth ==
    /\ demographic_data = <<ChwCommune.demographic_data>>
    /\ communes = <<ChwCommune>>
    /\ results = NoResults
    /\ run = [op |-> "month", week |-> 0]
    /\ last = NoCall

MonthApply ==
    \E c \in apply_intervention(communes[1], "chw_visits", 100) :
        /\ communes' = <<c>>
        /\ last' = ApplyCall("chw_visits", 100)
        /\ UNCHANGED <<results, demographic_data, run>>

MonthServe ==
    \E k \in 1..Len(Facilities), service_type \in {"anc", "surgery"} :
        LET r == serve_patient(Facilities[k], service_type)
        IN  /\ Facilities[k].patients_served_this_month < MaxServed
            /\ communes' = [communes EXCEPT ![1].health_facilities[k] = r.facility]
            /\ last' = Call("serve_patient", k, r.ret,
                            Facilities[k].patients_served_this_month)
            /\ UNCHANGED <<results, demographic_data, run>>

MonthStep ==
    /\ run.week < MonthWeeks
    /\ \E c \in step(communes[1], run.week, ChwActive) :
         /\ communes' = <<c>>
         /\ last' = Call("step", 0, FALSE, run.week)
    /\ run' = [run EXCEPT !.week = @ + 1]
    /\ UNCHANGED <<results, demographic_data>>

NextMonth ==
    \/ MonthApply
    \/ MonthServe
    \/ MonthStep

SpecMonth == InitMonth /\ [][NextMonth]_vars

\* C19: step(week) with week mod 4 = 0, week 0 included, leaves every CHW's
\* visits_this_month and every facility's patients_served_this_month at 0, and
\* no agent action of the step raises them again; step with week mod 4 # 0
\* leaves these counters as they were.  So the visits the CHW intervention
\* used at the start of a scenario are gone after the step of week 0.
C19_MonthlyReset ==
    [][(last'.op = "step")
       => /\ Len(Chws') = Len(Chws)
          /\ Len(Facilities') = Len(Facilities)
          /\ IF last'.pre % 4 = 0
             THEN /\ \A k \in 1..Len(Chws) : Chws'[k].visits_this_month = 0
                  /\ \A k \in 1..Len(Facilities) :
                       Facilities'[k].patients_served_this_month = 0
             ELSE /\ \A k \in 1..Len(Chws) :
                       Chws'[k].visits_this_month = Chws[k].visits_this_month
                  /\ \A k \in 1..Len(Facilities) :
                       Facilities'[k].patients_served_this_month
                         = Facilities[k].patients_served_this_month]_vars

\* the step of week 0 has run on a commune in which the CHW intervention
\* contacted 20 women: the CHW's counter is back at 0
C19_Witness ==
    /\ last.op = "step"
    /\ last.pre = 0
    /\ run.week = 1
    /\ Cardinality({i \in 1..Len(Mothers) : Mothers[i].chw_contacted}) = 20
    /\ \A k \in 1..Len(Chws) : Chws[k].visits_this_month = 0
    /\ \A k \in 1..Len(Facilities) : Facilities[k].patients_served_this_month = 0

-----------------------------------------------------------------------------
(* Claims on the targets of apply_intervention (Spec) *)

PoorOrRemote(a) ==
    a.attributes.poverty_level > 60 \/ a.attributes.distance_to_facility > 50

\* C20: apply_intervention changes eligible agents only: a call changes one
\* exposure field, that of its type, and only on agents eligible for the type,
\* so app_engagement is non-zero only on agents with mobile_access and
\* internet_access, received_sms is true only on agents with mobile_access,
\* and chw_contacted is true only on agents with poverty_level > 0.6 or
\* distance_to_facility > 5.
C20_OnlyEligibleChanged ==
    /\ [][(last'.op = "apply_intervention")
          => /\ Len(Mothers') = Len(Mothers)
             /\ \A i \in 1..Len(Mothers) :
                  /\ Mothers'[i].app_engagement # Mothers[i].app_engagement
                       => /\ last'.arg = "app_based"
                          /\ Mothers[i].attributes.mobile_access
                          /\ Mothers[i].attributes.internet_access
                  /\ Mothers'[i].received_sms # Mothers[i].received_sms
                       => /\ last'.arg = "sms_outreach"
                          /\ Mothers[i].attributes.mobile_access
                  /\ Mothers'[i].chw_contacted # Mothers[i].chw_contacted
                       => /\ last'.arg = "chw_visits"
                          /\ PoorOrRemote(Mothers[i])
                  /\ Mothers'[i] = [Mothers[i] EXCEPT
                                      !.app_engagement = Mothers'[i].app_engagement,
                                      !.received_sms = Mothers'[i].received_sms,
                                      !.chw_contacted = Mothers'[i].chw_contacted]]_vars
    /\ [](\A i \in 1..Len(Mothers) :
            /\ Mothers[i].app_engagement # 0
                 => Mothers[i].attributes.mobile_access
                    /\ Mothers[i].attributes.internet_access
            /\ Mothers[i].received_sms => Mothers[i].attributes.mobile_access
            /\ Mothers[i].chw_contacted => PoorOrRemote(Mothers[i]))

\* chw_visits has been applied to a commune of two women: the poor or remote
\* one is contacted, the other is not
C20_Witness ==
    /\ last.op = "apply_intervention"
    /\ last.arg = "chw_visits"
    /\ Len(Mothers) = 2
    /\ \E i, j \in 1..2 :
         /\ PoorOrRemote(Mothers[i]) /\ Mothers[i].chw_contacted
         /\ ~PoorOrRemote(Mothers[j]) /\ ~Mothers[j].chw_contacted

-----------------------------------------------------------------------------
(* Claims on the CHW-visit path of apply_intervention (SpecChw, SpecFresh) *)

\* C21: in the CHW-visit path the number of agents sampled as targets, were
\* the intervention applied now at full coverage, is
\* min(floor(eligible_count x coverage), remaining capacity), the remaining
\* capacity being the sum over the CHWs of max_visits_per_month minus
\* visits_this_month, so that every sampled target can be visited.
C21_TargetsWithinRemainingCapacity ==
    ChwNumTargeted(communes[1], 100)
      = Min(NumTargeted(Cardinality({i \in 1..Len(Mothers) : PoorOrRemote(Mothers[i])}),
                        100),
            RemainingCapacity(Chws))

-----------------------------------------------------------------------------
(* SpecChild: a commune of one woman and one child of any age;               *)
(* ChildAgent.receive_care and Commune.step called in any order              *)

\* age_months = random.randint(0, 59): ages with 0, 1, 2 and 8 expected
\* immunizations, the last by age and by the target
ChildAges == {0, 2, 5, 16, 59}

InitChild ==
    /\ demographic_data = <<ScenarioRow>>
    /\ communes \in {<<[c EXCEPT !.child_agents[1].age_months = age]>>
                     : c \in NewCommunes(ScenarioRow), age \in ChildAges}
    /\ results = NoResults
    /\ run = [op |-> "child", steps |-> 0]
    /\ last = NoCall

CallReceiveCare ==
    \E j \in 1..Len(Children), active \in AgentActiveInputs :
        LET mi == FindMother(Mothers, Children[j].mother_id)
        IN  /\ mi # 0
            /\ Children[j].care_seeking_delays < MaxDelays
            /\ \E r \in receive_care(Children[j], Mothers[mi], active) :
                 /\ communes' = [communes EXCEPT ![1].child_agents[j] = r.child]
                 /\ last' = Call("receive_care", j, r.ret,
                                 Children[j].immunizations_received)
            /\ UNCHANGED <<results, demographic_data, run>>

ChildStep ==
    /\ run.steps < MaxChildSteps
    /\ \E week \in AgentWeekInputs, active \in AgentActiveInputs :
         \E c \in step(communes[1], week, active) :
            /\ communes' = <<c>>
            /\ last' = Call("step", 0, FALSE, week)
    /\ run' = [run EXCEPT !.steps = @ + 1]
    /\ UNCHANGED <<results, demographic_data>>

NextChild ==
    \/ CallReceiveCare
    \/ ChildStep

SpecChild == InitChild /\ [][NextChild]_vars

\* expected_immunizations of need_immunization
ExpectedImmunizations(ch) == Min(ch.immunizations_target, ch.age_months \div 2)

\* C22: every child always has immunizations_received <=
\* min(immunizations_target, age_months // 2) <= 8; receive_care returns false
\* and changes nothing when the child needs no immunization, and otherwise
\* adds exactly 1 to exactly one of immunizations_received, returning true, or
\* care_seeking_delays, returning false.
C22_ImmunizationsWithinExpected ==
    /\ [](\A j \in 1..Len(Children) :
            /\ Children[j].immunizations_received <= ExpectedImmunizations(Children[j])
            /\ ExpectedImmunizations(Children[j]) <= 8)
    /\ [][(last'.op = "receive_care")
          => LET ch == Children[last'.who]
                 after == Children'[last'.who]
             IN  IF ch.immunizations_received >= ExpectedImmunizations(ch)
                 THEN ~last'.ret /\ after = ch
                 ELSE \/ /\ last'.ret
                         /\ after = [ch EXCEPT !.immunizations_received = @ + 1]
                      \/ /\ ~last'.ret
                         /\ after = [ch EXCEPT !.care_seeking_delays = @ + 1]]_vars

\* receive_care has returned false on a five-month-old child that has its two
\* expected immunizations, after a delay
C22_Witness ==
    /\ last.op = "receive_care"
    /\ ~last.ret
    /\ last.pre = 2
    /\ Children[1].age_months = 5
    /\ Children[1].immunizations_received = 2
    /\ Children[1].care_seeking_delays = 1

-----------------------------------------------------------------------------
(* Claims on what a scenario's steps change and leave alone (SpecScenario) *)

\* the week loop of run_scenario steps the communes for week w
SteppingWeek(w) == run.pc = "week" /\ run'.pc = "week" /\ run.week = w /\ run'.week = w + 1

\* C23: a child's care_seeking_delays never decreases and changes only in the
\* step of a week with week mod 4 = 0; so the care_seeking_delays metric of a
\* commune does not decrease from one snapshot of a scenario to the next.
C23_DelaysNonDecreasing ==
    /\ [][\A i \in 1..Len(communes) :
            /\ Len(communes') = Len(communes)
            /\ Len(communes'[i].child_agents) = Len(communes[i].child_agents)
            /\ \A j \in 1..Len(communes[i].child_agents) :
                 /\ communes'[i].child_agents[j].care_seeking_delays
                      >= communes[i].child_agents[j].care_seeking_delays
                 /\ communes'[i].child_agents[j].care_seeking_delays
                      # communes[i].child_agents[j].care_seeking_delays
                    => \E w \in 0..MaxDuration : w % 4 = 0 /\ SteppingWeek(w)]_vars
    /\ [](\A a, b \in 1..Len(run.scenario_results) :
            (/\ a < b
             /\ run.scenario_results[a].commune = run.scenario_results[b].commune)
            => run.scenario_results[a].care_seeking_delays
                 <= run.scenario_results[b].care_seeking_delays)

\* a scenario of 8 weeks has returned with the snapshots of week 0 and week 4:
\* one delay counted in the first, two in the second
C23_Witness ==
    /\ run.pc = "done"
    /\ run.duration_weeks = 8
    /\ Len(run.scenario_results) = 2
    /\ run.scenario_results[1].care_seeking_delays = 1
    /\ run.scenario_results[2].care_seeking_delays = 2
    /\ communes[1].child_agents[1].care_seeking_delays = 2

-----------------------------------------------------------------------------
(* Claims on the pregnancy cycle of a maternal agent (SpecAgent, SpecCycle) *)

\* C24: anc_visits falls only to 0 and only when become_pregnant is called,
\* directly or by step on an agent that was not pregnant; give_birth, called
\* directly or by step, leaves it as it is; so an agent that is no longer
\* pregnant and has anc_visits > 0 is in both pregnant_or_recently_pregnant
\* and mothers_who_gave_birth.
C24_AncKeptAfterBirth ==
    /\ [][\A i \in 1..Len(Mothers) :
            /\ Mothers'[i].anc_visits < Mothers[i].anc_visits
                 => /\ Mothers'[i].anc_visits = 0
                    /\ \/ last'.op = "become_pregnant" /\ last'.who = i
                       \/ /\ last'.op = "step"
                          /\ ~Mothers[i].is_pregnant
                          /\ Mothers'[i].is_pregnant
            /\ (last'.op = "give_birth" /\ last'.who = i)
                 => Mothers'[i].anc_visits = Mothers[i].anc_visits
            /\ (last'.op = "step" /\ Mothers[i].is_pregnant /\ ~Mothers'[i].is_pregnant)
                 => Mothers'[i].anc_visits >= Mothers[i].anc_visits]_vars
    /\ [](\A i \in 1..Len(Mothers) :
            (~Mothers[i].is_pregnant /\ Mothers[i].anc_visits > 0)
            => /\ i \in PregnantOrRecentlyPregnant(Mothers)
               /\ i \in MothersWhoGaveBirth(Mothers))

\* give_birth has ended a pregnancy at term with four ANC visits, which the
\* agent keeps
C24_Witness ==
    /\ last.op = "give_birth"
    /\ last.pre >= 40
    /\ ~Mothers[last.who].is_pregnant
    /\ Mothers[last.who].weeks_pregnant = 0
    /\ Mothers[last.who].anc_visits = 4

-----------------------------------------------------------------------------
(* SpecCycle: a commune of one woman stepped week after week, as the week    *)
(* loop of run_scenario does, long enough for a pregnancy to end and another *)
(* to begin.  run.seen and run.k0 note the week count at which her present   *)
(* pregnancy was first seen and her weeks_pregnant then.                     *)

CycleRun(active, a) ==
    [op |-> "cycle", week |-> 0, active |-> active,
     seen |-> 0, k0 |-> a.weeks_pregnant]

InitCycle ==
    /\ demographic_data = <<AgentRow>>
    /\ communes \in {<<c>> : c \in {n \in CommunesAsFound(AgentRow) :
                                      n.maternal_agents[1].attributes \in AgentProfiles}}
    /\ results = NoResults
    /\ run \in {CycleRun(active, communes[1].maternal_agents[1])
                : active \in AgentActiveInputs}
    /\ last = NoCall

CycleStep ==
    /\ run.week < MaxCycleWeeks
    /\ \E c \in step(communes[1], run.week, run.active) :
         LET began == ~Mothers[1].is_pregnant /\ c.maternal_agents[1].is_pregnant
         IN  /\ communes' = <<c>>
             /\ run' = [run EXCEPT
                          !.week = @ + 1,
                          !.seen = IF began THEN run.week + 1 ELSE @,
                          !.k0 = IF began THEN c.maternal_agents[1].weeks_pregnant ELSE @]
             /\ last' = Call("step", 0, FALSE, run.week)
    /\ UNCHANGED <<results, demographic_data>>

NextCycle == CycleStep

SpecCycle == InitCycle /\ [][NextCycle]_vars

\* the week loop goes on to its last week
SpecCycleFair == SpecCycle /\ WF_vars(CycleStep)

\* a step in which the woman becomes pregnant
StepBecomesPregnant ==
    CycleStep /\ Mothers'[1].is_pregnant /\ Mothers'[1].weeks_pregnant = 1

\* C25: every pregnancy ends: an agent seen pregnant with weeks_pregnant = k
\* after some step is still pregnant, one week further, after each of the next
\* 39-k steps and gives birth (is_pregnant false, weeks_pregnant 0) in the
\* step after these, the one in which weeks_pregnant reaches 40, provided
\* the run lasts that long; after the birth a step can make her pregnant again.
C25_PregnancyEnds ==
    /\ [](Mothers[1].is_pregnant
            => /\ Mothers[1].weeks_pregnant = run.k0 + (run.week - run.seen)
               /\ Mothers[1].weeks_pregnant < 40)
    /\ [][(last'.op = "step" /\ Mothers[1].is_pregnant)
          => IF run'.week - run.seen = 40 - run.k0
             THEN ~Mothers'[1].is_pregnant /\ Mothers'[1].weeks_pregnant = 0
             ELSE Mothers'[1].is_pregnant]_vars
    /\ (Mothers[1].is_pregnant /\ run.seen + (40 - run.k0) <= MaxCycleWeeks)
         ~> ~Mothers[1].is_pregnant
    /\ []((~Mothers[1].is_pregnant /\ run.week < MaxCycleWeeks)
            => ENABLED StepBecomesPregnant)

\* a pregnancy that began in a step, with weeks_pregnant = 1 after it, has
\* ended 39 steps later
C25_Witness ==
    /\ last.op = "step"
    /\ run.k0 = 1
    /\ run.seen >= 1
    /\ run.week = run.seen + 39
    /\ ~Mothers[1].is_pregnant
    /\ Mothers[1].weeks_pregnant = 0
    /\ Mothers[1].anc_visits >= 1

-----------------------------------------------------------------------------
(* SpecPair: a simulation of two communes.  The CHW intervention is applied  *)
(* to them and then, week by week, they are stepped and their metrics        *)
(* computed, each time in any order; the values the generator gives to each  *)
(* commune's step are fixed when the week begins.                            *)

PairRows == <<Row("A", "Dien Bien", 1, 0, 100), Row("B", "Thai Nguyen", 1, 1, 100)>>

PairActive == {{"chw_visits"}, InterventionTypes}

PairRun(active) ==
    [op |-> "pair", pc |-> "apply", week |-> 0, active |-> active,
     todo |-> {1, 2}, measured |-> {}, start |-> <<>>, draws |-> <<>>]

\* commune.step(week, interventions) on the i-th commune of the list, the
\* generator returning the values s
StepCommuneShared(cs, i, week, active, s) ==
    [j \in 1..Len(cs) |->
       IF j = i THEN step_seeded(cs[i], week, active, [s |-> s, n |-> 0]).commune
       ELSE IF week % metrics_every = 0
            THEN [cs[j] EXCEPT !.chw_agents = ResetChw(@)]
            ELSE cs[j]]

StepCommuneOf(cs, i, week, active, s) ==
    [cs EXCEPT ![i] = step_seeded(cs[i], week, active, [s |-> s, n |-> 0]).commune]

InitPair ==
    /\ demographic_data = PairRows
    /\ communes \in {cs \in InitializeCommunes(<<>>, PairRows) :
                       \A i \in 1..Len(cs) :
                          cs[i].maternal_agents[1].attributes \in AgentProfiles}
    /\ results = NoResults
    /\ run \in {PairRun(active) : active \in PairActive}
    /\ last = NoCall

PairApply ==
    /\ run.pc = "apply"
    /\ \E i \in run.todo :
         \E c \in apply_intervention(communes[i], "chw_visits", 100) :
            /\ communes' = [communes EXCEPT ![i] = c]
            /\ run' = [run EXCEPT !.todo = @ \ {i}]
            /\ last' = [ApplyCall("chw_visits", 100) EXCEPT !.who = i]
    /\ UNCHANGED <<results, demographic_data>>

\* a pass of the week loop begins: the values each commune's step will read
PairBeginWeek ==
    /\ run.todo = {}
    /\ \E week \in {IF run.pc = "apply" THEN 0 ELSE run.week + 1} :
         /\ week < PairWeeks
         /\ \E u \in Product([i \in 1..Len(communes) |->
                                [1..DrawsPerStep(communes[i], week) -> DrawValues]]) :
              run' = [run EXCEPT !.pc = "step", !.week = week,
                                 !.todo = 1..Len(communes), !.measured = {},
                                 !.start = communes, !.draws = u]
    /\ UNCHANGED <<communes, results, demographic_data, last>>

PairStep ==
    /\ run.pc = "step"
    /\ \E i \in run.todo :
         /\ communes' = StepCommuneOf(communes, i, run.week, run.active, run.draws[i])
         /\ run' = [run EXCEPT !.todo = @ \ {i}]
         /\ last' = Call("step", i, FALSE, run.week)
    /\ UNCHANGED <<results, demographic_data>>

PairMetrics ==
    /\ run.pc = "step"
    /\ \E i \in (1..Len(communes)) \ (run.todo \cup run.measured) :
         /\ communes' = [communes EXCEPT ![i] = calculate_metrics(@)]
         /\ run' = [run EXCEPT !.measured = @ \cup {i}]
         /\ last' = Call("calculate_metrics", i, FALSE, run.week)
    /\ UNCHANGED <<results, demographic_data>>

NextPair ==
    \/ PairApply
    \/ PairBeginWeek
    \/ PairStep
    \/ PairMetrics

SpecPair == InitPair /\ [][NextPair]_vars

\* a commune without the metrics calculate_metrics stores in it
SansMetrics(c) == [c EXCEPT !.metrics = InitialMetrics]

\* C26: communes are independent: an apply_intervention, step or
\* calculate_metrics call on one commune leaves every other commune of the
\* simulation exactly as it was, and when all communes have been stepped for a
\* week, in whichever order, each is in the state its own step gives from its
\* state at the start of the week with its own random values.
C26_CommunesIndependent ==
    /\ [][/\ Len(communes') = Len(communes)
          /\ \A j \in 1..Len(communes) :
               communes'[j] # communes[j]
               => /\ last'.who = j
                  /\ last'.op \in {"apply_intervention", "step", "calculate_metrics"}]_vars
    /\ []((run.pc = "step" /\ run.todo = {})
            => \A i \in 1..Len(communes) :
                 SansMetrics(communes[i])
                   = SansMetrics(step_seeded(run.start[i], run.week, run.active,
                                             [s |-> run.draws[i], n |-> 0]).commune))

\* the communes of week 0 were stepped second first, after the CHW of the
\* second one had made a visit: both women are further in their pregnancy,
\* the second commune's child has been cared for
C26_Witness ==
    /\ run.pc = "step"
    /\ run.week = 0
    /\ run.todo = {}
    /\ last.op = "step"
    /\ last.who = 1
    /\ communes[1].maternal_agents[1].weeks_pregnant = 2
    /\ communes[2].maternal_agents[1].weeks_pregnant = 2
    /\ communes[2].maternal_agents[1].chw_contacted
    /\ communes[2].child_agents[1].immunizations_received = 1

-----------------------------------------------------------------------------
(* Claims on the pregnancy clock under step alone (SpecCycle) *)

\* C27: at initialization and after every step each maternal agent has
\* 0 <= weeks_pregnant <= 39 and is pregnant exactly when weeks_pregnant >= 1;
\* step does not call become_pregnant on a pregnant agent, whose clock goes on
\* or ends and whose anc_visits is not cleared; an agent that becomes pregnant
\* in a step ends it with weeks_pregnant = 1 and anc_visits = 0.
C27_PregnancyClock ==
    /\ [](\A i \in 1..Len(Mothers) :
            /\ 0 <= Mothers[i].weeks_pregnant
            /\ Mothers[i].weeks_pregnant <= 39
            /\ Mothers[i].is_pregnant <=> Mothers[i].weeks_pregnant >= 1)
    /\ [][(last'.op = "step")
          => \A i \in 1..Len(Mothers) :
               IF Mothers[i].is_pregnant
               THEN /\ Mothers'[i].weeks_pregnant
                         \in {0, Mothers[i].weeks_pregnant + 1}
                    /\ Mothers'[i].anc_visits >= Mothers[i].anc_visits
               ELSE Mothers'[i].is_pregnant
                    => /\ Mothers'[i].weeks_pregnant = 1
                       /\ Mothers'[i].anc_visits = 0]_vars

\* the woman, who gave birth with ANC visits earlier in the run, has become
\* pregnant again in the last step
C27_Witness ==
    /\ last.op = "step"
    /\ run.week >= 40
    /\ run.seen = run.week
    /\ Mothers[1].is_pregnant
    /\ Mothers[1].weeks_pregnant = 1
    /\ Mothers[1].anc_visits = 0
    /\ Mothers[1].has_skilled_birth_attendant

-----------------------------------------------------------------------------
(* Claims on the intervention exposure after its application (Spec) *)

\* C28: step leaves app_engagement, received_sms and chw_contacted of every
\* maternal agent as they are, and so does calculate_metrics; hence the
\* digital_engagement that calculate_metrics computes is the same after a step
\* as before it, and the same in every snapshot of a scenario.
C28_ExposureKeptByStep ==
    [][(last'.op \in {"step", "calculate_metrics"})
       => /\ Len(Mothers') = Len(Mothers)
          /\ \A i \in 1..Len(Mothers) :
               /\ Mothers'[i].app_engagement = Mothers[i].app_engagement
               /\ Mothers'[i].received_sms = Mothers[i].received_sms
               /\ Mothers'[i].chw_contacted = Mothers[i].chw_contacted
          /\ Metrics(communes'[1]).digital_engagement
               = Metrics(communes[1]).digital_engagement
          /\ (last.op = "calculate_metrics" /\ last'.op = "step")
               => Metrics(communes'[1]).digital_engagement
                    = communes[1].metrics.digital_engagement]_vars

\* the step of week 1 has run after the snapshot of week 0 on a commune with
\* a woman engaged by the app and reached by SMS: the snapshot's
\* digital_engagement is not 0 and is what calculate_metrics would give now
C28_Witness ==
    /\ last.op = "step"
    /\ last.pre = 1
    /\ \E i \in 1..Len(Mothers) :
         Mothers[i].app_engagement > 0 /\ Mothers[i].received_sms
    /\ \E i \in 1..Len(Mothers) : Mothers[i].chw_contacted
    /\ communes[1].metrics.digital_engagement.num > 0
    /\ Metrics(communes[1]).digital_engagement = communes[1].metrics.digital_engagement

-----------------------------------------------------------------------------
(* Claims on the intervention types without a branch (SpecAttr) *)

\* intervention types for which apply_intervention has no branch
UnhandledTypes == {"incentives", "vouchers", ""}

\* C29: apply_intervention with type "incentives", or any type other than
\* app_based, sms_outreach and chw_visits, changes nothing in the commune, at
\* any coverage; incentives act through the flag read while stepping, which
\* raises the probabilities of seek_anc_care for agents with poverty_level >
\* 0.6 and of receive_care for mothers with poverty_level > 0.5, and changes
\* them for no other agent.
C29_IncentivesChangeNoState ==
    /\ [](\A type \in UnhandledTypes, coverage \in CoverageInputs :
            apply_intervention(communes[1], type, coverage) = {communes[1]})
    /\ [][(last'.op = "apply_intervention" /\ last'.arg \in UnhandledTypes)
          => communes' = communes]_vars
    /\ [](\A i \in 1..Len(Mothers) :
            /\ IF Mothers[i].attributes.poverty_level > 60
               THEN anc_final_prob(Mothers[i], {"incentives"})
                      = Min(9500, anc_final_prob(Mothers[i], {}) + 3000)
               ELSE anc_final_prob(Mothers[i], {"incentives"})
                      = anc_final_prob(Mothers[i], {})
            /\ IF Mothers[i].attributes.poverty_level > 50
               THEN care_final_prob(Mothers[i], {"incentives"})
                      >= care_final_prob(Mothers[i], {})
               ELSE care_final_prob(Mothers[i], {"incentives"})
                      = care_final_prob(Mothers[i], {}))

\* "incentives" has been applied to the commune of a poor pregnant woman with
\* a phone, who had no SMS before and has none now
C29_Witness ==
    /\ last.op = "apply_intervention"
    /\ last.arg = "incentives"
    /\ Mothers[1].is_pregnant
    /\ Mothers[1].attributes.poverty_level > 60
    /\ Mothers[1].attributes.mobile_access
    /\ ~Mothers[1].received_sms
    /\ anc_final_prob(Mothers[1], {"incentives"}) > anc_final_prob(Mothers[1], {})

-----------------------------------------------------------------------------
(* SpecFresh: apply_intervention("chw_visits") called once on a commune as   *)
(* Commune(...) builds it: of 0..MaxWomen women with one or two CHWs, or of  *)
(* more poor women than its one CHW can visit                                *)

FreshRows ==
    {Row("A", "Dien Bien", w, 0, population)
       : w \in 0..MaxWomen, population \in {100, 2 * people_per_chw}}

\* the commune of ChwWomen poor and remote women, none pregnant
CrowdedCommune ==
    [ChwCommune EXCEPT
       !.maternal_agents = [i \in 1..ChwWomen |-> MaternalAgent(i, ChwProfile)]]

InitFresh ==
    /\ \E c \in UNION {NewCommunes(row) : row \in FreshRows} \cup {CrowdedCommune} :
         /\ communes = <<c>>
         /\ demographic_data = <<c.demographic_data>>
    /\ results = NoResults
    /\ run = [op |-> "fresh", applied |-> FALSE]
    /\ last = NoCall

\* the one application: at the default or at full coverage, at full coverage
\* on the crowded commune
FreshApply ==
    /\ ~run.applied
    /\ \E coverage \in IF Len(Mothers) > MaxWomen THEN {100} ELSE CoverageInputs :
         \E c \in apply_intervention(communes[1], "chw_visits", coverage) :
            /\ communes' = <<c>>
            /\ last' = ApplyCall("chw_visits", coverage)
    /\ run' = [run EXCEPT !.applied = TRUE]
    /\ UNCHANGED <<results, demographic_data>>

NextFresh == FreshApply

SpecFresh == InitFresh /\ [][NextFresh]_vars

Contacted == {i \in 1..Len(Mothers) : Mothers[i].chw_contacted}

VisitsMade == SumSeq([k \in 1..Len(Chws) |-> Chws[k].visits_this_month])

\* C30: after one application of chw_visits to a freshly built commune the
\* number of agents with chw_contacted = true equals the sum of
\* visits_this_month over the CHWs and equals min(floor(eligible_count x
\* coverage), sum of max_visits_per_month): each sampled target was visited
\* once and no visit went to an agent contacted before; before the
\* application both counts are 0.
C30_ContactsEqualVisits ==
    /\ Cardinality(Contacted) = VisitsMade
    /\ IF run.applied
       THEN VisitsMade
              = Min((Cardinality({i \in 1..Len(Mothers) : PoorOrRemote(Mothers[i])})
                       * last.pre) \div 100,
                    SumSeq([k \in 1..Len(Chws) |-> Chws[k].max_visits_per_month]))
       ELSE VisitsMade = 0

\* the one CHW of the crowded commune has visited 20 of its women at full
\* coverage
C30_Witness ==
    /\ run.applied
    /\ last.pre = 100
    /\ Len(Mothers) = ChwWomen
    /\ Len(Chws) = 1
    /\ Cardinality(Contacted) = 20
    /\ VisitsMade = 20

=============================================================================
